---- MODULE Spec2Model ----
(***************************************************************************)
(* A model of collectune's incremental scan: the catalog (DuckDB tables),  *)
(* the collection directory, and one scan per process start                *)
(* (backend/src/main.rs -> scanner::scan).                                 *)
(*                                                                         *)
(* Conventions.  Option<T> is a sequence of length 0 (None) or 1 (Some).   *)
(* Uuid::new_v4() is a number no table of the catalog holds yet.           *)
(* A catalog table is the sequence of its rows in insertion order, which   *)
(* is the order an unordered SELECT of DuckDB scans them in.               *)
(***************************************************************************)
EXTENDS Integers, Sequences, FiniteSets, TLC

\* Number of scans (process starts) in a behaviour.
MaxScans == 3

\* Number of changes the user makes to the collection directory between scans.
MaxChanges == 3

\* Number of record batches of the longest query result.
MaxBatches == 8

\* Number of years the system clock moves on after the first extraction.
MaxClockYears == 2

\* Number of migrations the build knows (entries of MIGRATIONS).
MaxMigrations == 3

\* Number of times the process is started on one catalog file.
MaxStartups == 4

\* SQL NULL in a UUID / number column.
NULL == 0

(***************************************************************************)
(* The collection directory.                                               *)
(***************************************************************************)

\* The file paths the walk can meet.
Paths == {"A/1.flac", "A/disc 1/2.flac", "B/3.M4A"}

\* The byte contents a file can have.
Contents == {"c1", "c2"}

\* The contents of the files of the album directories: c1 and c2 carry one
\* album title, c3 another.
FolderContents == {"c1", "c2", "c3"}

\* The bytes of files whose modification time matters: "c4" is "c1" with
\* one audio sample changed, the same tags and the same length.
TimedContents == {"c1", "c2", "c4"}

Absent == "absent"

\* A file that is on disk and cannot be read (fs::read returns an error).
Unreadable == "unreadable"

\* Bytes that are no audio symphonia can decode: the probe of c0 returns an
\* error, the decoder panics on c9.
Undecodable == {"c0", "c9"}

\* Component::CurDir: the one component of the collection path ".".
CurDir == <<".">>

\* The collection paths of the album directories below: a directory with a
\* name, and ".".
CollectionPaths == { <<"m">>, CurDir }

\* The names a folder between the collection path and a file can have: a
\* word, white space, a number, white space.
FolderWords ==
    { <<"d", "i", "s", "c">>, <<"D", "I", "S", "C">>, <<"c", "d">>, <<"C", "d">>,
      <<"d", "i", "s", "k">>, <<"d", "i", "s">>, <<"x", "c", "d">> }

FolderGaps == { <<>>, <<" ">>, <<" ", " ">> }

FolderNumbers == { <<>>, <<"1">>, <<"0", "2">>, <<"2", "a">>, <<"a">>, <<"1", " ", "2">> }

FolderEnds == { <<>>, <<" ">> }

FolderNames ==
    {w \o g \o n \o e : w \in FolderWords, g \in FolderGaps, n \in FolderNumbers,
                        e \in FolderEnds}

\* The characters of a name as one string.
RECURSIVE name_string(_)
name_string(chars) ==
    IF Len(chars) = 0 THEN "" ELSE Head(chars) \o name_string(Tail(chars))

\* The files of the album directories: `root` is the collection path, `sub`
\* the folders between it and the file (none or one), `name` the file's name.
FolderFiles ==
    [root : CollectionPaths,
     sub : {<<>>} \cup {<<n>> : n \in FolderNames},
     name : {"1.flac", "2.flac"}]

\* PathBuf::join: the path of such a file as the walk yields it.
folder_path(f) ==
    name_string(f.root) \o "/"
    \o (IF Len(f.sub) = 0 THEN "" ELSE name_string(f.sub[1]) \o "/")
    \o f.name

\* Every such path with the components of its Path::parent().
FolderPaths ==
    {[path |-> folder_path(f), dirs |-> <<f.root>> \o f.sub] : f \in FolderFiles}

folder_dirs(path) == (CHOOSE e \in FolderPaths : e.path = path).dirs

\* Path::parent() of a file as its components, outermost first; a name is its
\* characters.  The paths of `Paths` are written without the collection path.
parent_dirs(path) ==
    CASE path = "A/1.flac" -> << <<"A">> >>
      [] path = "A/disc 1/2.flac" -> << <<"A">>, <<"D", "i", "s", "c", " ", "1">> >>
      [] path = "B/3.M4A" -> << <<"B">> >>
      [] OTHER -> folder_dirs(path)

\* Path::extension()
extension(path) ==
    CASE path = "A/1.flac" -> <<"f", "l", "a", "c">>
      [] path = "A/disc 1/2.flac" -> <<"f", "l", "a", "c">>
      [] path = "B/3.M4A" -> <<"M", "4", "A">>
      [] OTHER -> <<"f", "l", "a", "c">>

\* The tags embedded in each content, in the order the probe yields them
\* (all of them Value::String; a Date is kept as its characters).
embedded_tags(c) ==
    CASE c \in {"c1", "c4"} ->
                     << [key |-> "Artist", value |-> "X"],
                        [key |-> "TrackTitle", value |-> "One"],
                        [key |-> "Album", value |-> "A"],
                        [key |-> "Date", value |-> <<"2", "0", "0", "1", "-", "0", "5">>],
                        [key |-> "TrackNumber", value |-> <<"3", "/", "1", "2">>],
                        [key |-> "Artist", value |-> "X"],
                        [key |-> "Artist", value |-> "Y"] >>
      [] c = "c2" -> << [key |-> "Artist", value |-> "Y"],
                        [key |-> "TrackTitle", value |-> "Two"],
                        [key |-> "Album", value |-> "A"],
                        [key |-> "Date", value |-> <<"c", "a", " ", "1", "4", "9", "2">>],
                        [key |-> "Artist", value |-> "X"] >>
      [] c = "c3" -> << [key |-> "Artist", value |-> "X"],
                        [key |-> "TrackTitle", value |-> "Three"],
                        [key |-> "Album", value |-> "B"] >>

\* blake3::hash of a content (collision free).
blake3(c) ==
    CASE c = "c1" -> "h1" [] c = "c2" -> "h2" [] c = "c3" -> "h3"
      [] c = "c0" -> "h0" [] c = "c9" -> "h9" [] c = "c4" -> "h4"

\* Length in bytes of a content.
content_len(c) ==
    CASE c = "c1" -> 100 [] c = "c2" -> 200 [] c = "c3" -> 300
      [] c = "c0" -> 10 [] c = "c9" -> 90 [] c = Unreadable -> 50
      [] c = "c4" -> 100

\* n_frames x time_base of a content, in seconds.
content_duration(c) ==
    CASE c \in {"c1", "c4"} -> 30 [] c = "c2" -> 60 [] c = "c3" -> 90

VARIABLES
    fs,       \* the collection directory: path -> content, or Absent
    db,       \* the catalog: one sequence of rows per table
    scans,    \* scans run so far; the clock that now() reads
    changes,  \* changes made to the collection directory so far
    results,  \* what the last scan reported
    scanned   \* the collection directory as the last committed scan left it

\* The query server (backend/src/server.rs) of one process; the functions
\* have one entry per POST /query request.
VARIABLES
    main_pc,   \* where main is: "start", "scan" or "serve"
    mutex,     \* AppState.db: the request whose task holds the lock, or 0
    poisoned,  \* a task panicked while it held the lock
    request,   \* the body of the request: None until the client sends it
    task,      \* the statement the request's blocking task runs next
    buf,       \* ChannelWriter.buf: the chunk written and not yet sent
    written,   \* the batches ipc_writer.write returned Ok for
    ready,     \* the oneshot ready_tx / ready_rx: sends and value
    chan,      \* the mpsc channel tx / rx: the chunks sent and not received
    response,  \* the response: its status and the body the client has
    client     \* the client of the request

\* The metadata extractor (scanner/metadata.rs) run on files of its own.
VARIABLES
    now_year,     \* the year jiff::Zoned::now() reads from the system clock
    returned,     \* the files get_track_metadata has run on, each with a result
    file_ext,     \* the extension of the file the walk met last
    is_audio,     \* what is_audio_file said of it
    file_format   \* what extension_to_format returned for it

\* One ChannelWriter (backend/src/server.rs) and the channel it sends into,
\* with a caller of its own.  The bytes written are numbered 1, 2, ...
VARIABLES
    writer_pc,      \* the ChannelWriter: "open", or "dropped"
    writer_buf,     \* ChannelWriter.buf: the bytes written and not yet sent
    bytes_written,  \* the number of bytes write() has taken
    send_failed,    \* a blocking_send has returned an error
    writer_tx,      \* the channel: the chunks sent and not yet received
    rx,             \* the receiver: "open", or "dropped"
    body_stream     \* the chunks the response body has received

writer_vars ==
    <<writer_pc, writer_buf, bytes_written, send_failed, writer_tx, rx, body_stream>>

scan_vars == <<fs, db, scans, changes, results, scanned>>

extract_vars == <<now_year, returned, file_ext, is_audio, file_format>>

\* Opening the catalog (backend/src/db.rs).
VARIABLES
    store,               \* collectune.db as committed: meta.version and the schema
    tx,                  \* the open transaction's view of the file, or None
    get_db_pc,           \* where get_db is
    pending_migrations,  \* the migrations get_db has still to run
    startups             \* process starts so far

get_db_vars == <<store, tx, get_db_pc, pending_migrations, startups>>

\* The classifier of scanner/classify.rs run on the file at one path.
VARIABLES
    on_disk,        \* per path: the file's bytes and modification time, or None
    cataloged,      \* the live file rows load_existing_files has read
    classification  \* what classify_file returned for the file, None before

\* resolve_conflicts (scanner/mod.rs) run on the lists of one scan.
VARIABLES
    collected,  \* the ScanResults aggregate returned
    reconciled  \* the ScanResults after resolve_conflicts, None before

classify_vars == <<on_disk, cataloged, classification, collected, reconciled>>

server_vars ==
    <<main_pc, mutex, poisoned, request, task, buf, written, ready, chan,
      response, client, writer_vars>>

vars == <<scan_vars, server_vars, extract_vars, get_db_vars, classify_vars>>

\* Iterator::collect() into a Vec: the sequence with every element computed.
collect(items) == items \o <<>>

(***************************************************************************)
(* Metadata extraction (scanner/metadata.rs).                              *)
(***************************************************************************)

\* jiff::Zoned::now().year()
current_year == 2026

MinYear == 1860

MaxU16 == 65535

AsciiDigits == {"0", "1", "2", "3", "4", "5", "6", "7", "8", "9"}

digit_value(ch) ==
    CASE ch = "0" -> 0 [] ch = "1" -> 1 [] ch = "2" -> 2 [] ch = "3" -> 3
      [] ch = "4" -> 4 [] ch = "5" -> 5 [] ch = "6" -> 6 [] ch = "7" -> 7
      [] ch = "8" -> 8 [] ch = "9" -> 9

RECURSIVE digits_value(_)
digits_value(chars) ==
    IF Len(chars) = 0 THEN 0
    ELSE 10 * digits_value(SubSeq(chars, 1, Len(chars) - 1))
         + digit_value(chars[Len(chars)])

\* str::parse::<u16>()
parse_u16(chars) ==
    IF Len(chars) = 0 \/ \E i \in DOMAIN chars : chars[i] \notin AsciiDigits
    THEN <<>>
    ELSE IF digits_value(chars) > MaxU16 THEN <<>> ELSE <<digits_value(chars)>>

\* parse_tag_value_into_year when the clock reads the year `now`.
parse_tag_value_into_year_at(value, now) ==
    LET digit_at == {i \in DOMAIN value : value[i] \in AsciiDigits} IN
    IF digit_at = {} THEN <<>>
    ELSE LET start == CHOOSE i \in digit_at : \A j \in digit_at : i <= j
             end == IF start + 3 <= Len(value) THEN start + 3 ELSE Len(value)
             year == parse_u16(SubSeq(value, start, end))
         IN IF Len(year) = 1 /\ year[1] > MinYear /\ year[1] <= now + 1
            THEN year ELSE <<>>

\* parse_tag_value_into_year in the year of the scans.
parse_tag_value_into_year(value) == parse_tag_value_into_year_at(value, current_year)

MaxU8 == 255

\* The longest run of ASCII digits that `chars` starts with.
RECURSIVE digit_run(_)
digit_run(chars) ==
    IF Len(chars) = 0 THEN <<>>
    ELSE IF Head(chars) \notin AsciiDigits THEN <<>>
    ELSE <<Head(chars)>> \o digit_run(Tail(chars))

\* str::parse::<u8>()
parse_u8(chars) ==
    IF Len(chars) = 0 \/ \E i \in DOMAIN chars : chars[i] \notin AsciiDigits
    THEN <<>>
    ELSE IF digits_value(chars) > MaxU8 THEN <<>> ELSE <<digits_value(chars)>>

\* parse_tag_value_into_u8, Value::String arm: the first run of digits.
parse_tag_value_into_u8(value) ==
    LET digit_at == {i \in DOMAIN value : value[i] \in AsciiDigits} IN
    IF digit_at = {} THEN <<>>
    ELSE LET start == CHOOSE i \in digit_at : \A j \in digit_at : i <= j
         IN parse_u8(digit_run(SubSeq(value, start, Len(value))))

\* An accumulator that keeps duplicates.
append_any_value(value, container) == Append(container, value)

\* The closure append_string_value: push unless the container holds it.
append_string_value(value, container) ==
    IF \E i \in DOMAIN container : container[i] = value
    THEN container ELSE Append(container, value)

\* The values of one string key, first seen first, duplicates dropped.
RECURSIVE string_values(_, _)
string_values(tags, key) ==
    IF Len(tags) = 0 THEN <<>>
    ELSE LET before == string_values(SubSeq(tags, 1, Len(tags) - 1), key)
             tag == tags[Len(tags)]
         IN IF tag.key = key THEN append_string_value(tag.value, before) ELSE before

\* date_value.or_else(..): the first Date tag that parses.
RECURSIVE date_value_at(_, _)
date_value_at(tags, now) ==
    IF Len(tags) = 0 THEN <<>>
    ELSE LET before == date_value_at(SubSeq(tags, 1, Len(tags) - 1), now)
             tag == tags[Len(tags)]
         IN IF Len(before) = 1 \/ tag.key # "Date" THEN before
            ELSE parse_tag_value_into_year_at(tag.value, now)

\* The first Date tag that parses in the year of the scans.
date_value(tags) == date_value_at(tags, current_year)

\* Vec<String>::join(", ")
RECURSIVE join(_)
join(values) ==
    IF Len(values) = 0 THEN ""
    ELSE IF Len(values) = 1 THEN values[1]
    ELSE values[1] \o ", " \o join(Tail(values))

\* x.or_else(|| parse_tag_value_into_u8(..)): the first tag of `key` that parses.
RECURSIVE u8_value(_, _)
u8_value(tags, key) ==
    IF Len(tags) = 0 THEN <<>>
    ELSE LET before == u8_value(SubSeq(tags, 1, Len(tags) - 1), key)
             tag == tags[Len(tags)]
         IN IF Len(before) = 1 \/ tag.key # key THEN before
            ELSE parse_tag_value_into_u8(tag.value)

\* assemble_tags_into_metadata when the clock reads the year `now`.
assemble_tags_into_metadata_at(tags, now) ==
    [title |-> join(string_values(tags, "TrackTitle")),
     track_number |-> u8_value(tags, "TrackNumber"),
     disc_number |-> u8_value(tags, "DiscNumber"),
     genre |-> join(string_values(tags, "Genre")),
     album |-> join(string_values(tags, "Album")),
     year |-> date_value_at(tags, now),
     artists |-> LET artist_values == string_values(tags, "Artist") IN
                 collect([i \in DOMAIN artist_values |->
                            [artist |-> artist_values[i], role |-> <<>>]])]

\* assemble_tags_into_metadata in the year of the scans.
assemble_tags_into_metadata(tags) == assemble_tags_into_metadata_at(tags, current_year)

\* What the probe and assemble_tags_into_metadata make of each content.
probed_metadata ==
    [c \in FolderContents \cup TimedContents |->
        assemble_tags_into_metadata(embedded_tags(c))] @@ <<>>

\* The decoding stack panics on a content.
panics(c) == c = "c9"

\* probe_file of a content the decoder does not panic on: Some(duration), or
\* None when the probe returns an error.
probe_file(c) == IF c = "c0" THEN <<>> ELSE << content_duration(c) >>

\* An extractor that returns the metadata of no tag for what it cannot decode.
get_track_metadata_or_default(c) ==
    IF c \in {"c0", "c9"}
    THEN << [metadata |-> assemble_tags_into_metadata(<<>>), duration |-> 0] >>
    ELSE << [metadata |-> probed_metadata[c], duration |-> content_duration(c)] >>

\* get_track_metadata of the content read at a path: Some((metadata,
\* duration)), or None when the probe fails or the panic is caught.
get_track_metadata(c) ==
    IF panics(c) THEN <<>>
    ELSE IF Len(probe_file(c)) = 0 THEN <<>>
    ELSE << [metadata |-> probed_metadata[c], duration |-> probe_file(c)[1]] >>

\* get_duration of the content read at a path: 0.0 when the probe fails or
\* the panic is caught.
get_duration(c) ==
    IF panics(c) THEN 0
    ELSE IF Len(probe_file(c)) = 0 THEN 0
    ELSE probe_file(c)[1]

\* u8::to_ascii_lowercase of a character.
char_to_ascii_lowercase(ch) ==
    CASE ch = "A" -> "a" [] ch = "B" -> "b" [] ch = "C" -> "c" [] ch = "D" -> "d" [] ch = "E" -> "e"
      [] ch = "F" -> "f" [] ch = "G" -> "g" [] ch = "H" -> "h" [] ch = "I" -> "i" [] ch = "J" -> "j"
      [] ch = "K" -> "k" [] ch = "L" -> "l" [] ch = "M" -> "m" [] ch = "N" -> "n" [] ch = "O" -> "o"
      [] ch = "P" -> "p" [] ch = "Q" -> "q" [] ch = "R" -> "r" [] ch = "S" -> "s" [] ch = "T" -> "t"
      [] ch = "U" -> "u" [] ch = "V" -> "v" [] ch = "W" -> "w" [] ch = "X" -> "x" [] ch = "Y" -> "y"
      [] ch = "Z" -> "z"
      [] OTHER -> ch

\* str::to_ascii_lowercase of a text, given as its characters.
to_ascii_lowercase(ext) ==
    collect([i \in DOMAIN ext |-> char_to_ascii_lowercase(ext[i])])

\* A format function that matches the extension as it is written.
extension_to_format_as_written(ext) ==
    CASE ext = <<"m", "4", "a">> -> <<"mp4">>
      [] ext \in {<<"a", "i", "f">>, <<"a", "i", "f", "f">>} -> <<"aiff">>
      [] ext = <<"f", "l", "a", "c">> -> <<"flac">>
      [] ext = <<"m", "p", "3">> -> <<"mp3">>
      [] ext = <<"o", "g", "g">> -> <<"ogg">>
      [] ext = <<"o", "p", "u", "s">> -> <<"opus">>
      [] ext = <<"w", "m", "a">> -> <<"wma">>
      [] ext = <<"a", "a", "c">> -> <<"aac">>
      [] ext = <<"a", "l", "a", "c">> -> <<"alac">>
      [] ext = <<"a", "p", "e">> -> <<"ape">>
      [] ext = <<"w", "a", "v">> -> <<"wav">>
      [] ext = <<"w", "v">> -> <<"wv">>
      [] OTHER -> <<>>

extension_to_format(ext) ==
    LET e == to_ascii_lowercase(ext) IN
    CASE e = <<"a", "a", "c">> -> <<"aac">>
      [] e \in {<<"a", "i", "f">>, <<"a", "i", "f", "f">>} -> <<"aiff">>
      [] e = <<"a", "l", "a", "c">> -> <<"alac">>
      [] e = <<"a", "p", "e">> -> <<"ape">>
      [] e = <<"f", "l", "a", "c">> -> <<"flac">>
      [] e = <<"m", "4", "a">> -> <<"mp4">>
      [] e = <<"m", "p", "3">> -> <<"mp3">>
      [] e = <<"o", "g", "g">> -> <<"ogg">>
      [] e = <<"o", "p", "u", "s">> -> <<"opus">>
      [] e = <<"w", "a", "v">> -> <<"wav">>
      [] e = <<"w", "m", "a">> -> <<"wma">>
      [] e = <<"w", "v">> -> <<"wv">>
      [] OTHER -> <<>>

(***************************************************************************)
(* Existing-state loader (scanner/staging.rs).                             *)
(***************************************************************************)

\* A loader that loads the tombstoned rows too.
all_rows(file) == file

\* A loader that loads no row.
no_rows(file) == <<>>

\* SELECT id, path, hash FROM file WHERE deletion IS NULL
live_rows(file) == SelectSeq(file, LAMBDA r : r.deletion = NULL)

\* Uuid::parse_str(&id_str): the id column holds a text; the text of a UUID
\* is a positive number here, any other text a negative one.
parse_str(id_str) == IF id_str > 0 THEN <<id_str>> ELSE <<>>

\* Length in bytes of a hash blob: a BLAKE3 hash has 32 bytes, a blob cut
\* short has fewer.
blob_len(hash_blob) == IF hash_blob \in {"h1-", "h2-"} THEN 31 ELSE 32

\* hash_blob.try_into() for [u8; 32]
try_into(hash_blob) == IF blob_len(hash_blob) = 32 THEN <<hash_blob>> ELSE <<>>

\* A loop that loads every row, whatever its id and its hash.
RECURSIVE load_existing_files_loop_unchecked(_, _, _)
load_existing_files_loop_unchecked(rows, by_path, by_hash) ==
    IF Len(rows) = 0 THEN [by_path |-> by_path, by_hash |-> by_hash]
    ELSE LET row == Head(rows) IN
         load_existing_files_loop_unchecked(
            Tail(rows),
            (row.path :> [id |-> row.id, hash |-> row.hash]) @@ by_path,
            (row.hash :> Append(IF row.hash \in DOMAIN by_hash
                                THEN by_hash[row.hash] ELSE <<>>,
                                [id |-> row.id, path |-> row.path])) @@ by_hash)

\* The loop over the rows: a row whose id or hash does not convert is passed
\* over (continue); by_path.insert overwrites, so the last row loaded with a
\* path stays; by_hash keeps every (id, path) of a hash in load order.
RECURSIVE load_existing_files_loop(_, _, _)
load_existing_files_loop(rows, by_path, by_hash) ==
    IF Len(rows) = 0 THEN [by_path |-> by_path, by_hash |-> by_hash]
    ELSE LET row == Head(rows) IN
         IF parse_str(row.id) = <<>> \/ try_into(row.hash) = <<>>
         THEN load_existing_files_loop(Tail(rows), by_path, by_hash)
         ELSE
         load_existing_files_loop(
            Tail(rows),
            (row.path :> [id |-> row.id, hash |-> row.hash]) @@ by_path,
            (row.hash :> Append(IF row.hash \in DOMAIN by_hash
                                THEN by_hash[row.hash] ELSE <<>>,
                                [id |-> row.id, path |-> row.path])) @@ by_hash)

load_existing_files(file) == load_existing_files_loop(live_rows(file), <<>>, <<>>)

\* A loader that finds no artist.
no_artists(artist) == <<>>

\* SELECT id, name FROM artist, into a map name -> id (a later row overwrites).
RECURSIVE load_existing_artists_loop(_, _)
load_existing_artists_loop(rows, map) ==
    IF Len(rows) = 0 THEN map
    ELSE IF parse_str(Head(rows).id) = <<>>
    THEN load_existing_artists_loop(Tail(rows), map)
    ELSE load_existing_artists_loop(Tail(rows), (Head(rows).name :> Head(rows).id) @@ map)

load_existing_artists(artist) == load_existing_artists_loop(artist, <<>>)

(***************************************************************************)
(* Walk and classification (scanner/mod.rs).                               *)
(***************************************************************************)

AUDIO_EXTENSIONS ==
    {<<"m", "p", "3">>, <<"f", "l", "a", "c">>, <<"o", "g", "g">>,
     <<"m", "4", "a">>, <<"o", "p", "u", "s">>, <<"w", "m", "a">>,
     <<"a", "a", "c">>, <<"a", "i", "f", "f">>, <<"a", "i", "f">>,
     <<"a", "l", "a", "c">>, <<"a", "p", "e">>, <<"w", "a", "v">>, <<"w", "v">>}

\* The closure of is_audio_file, on an extension that is valid UTF-8.
is_audio_extension(ext) == to_ascii_lowercase(ext) \in AUDIO_EXTENSIONS

is_audio_file(path) == is_audio_extension(extension(path))

\* Path::exists() / Path::is_file() on the directory `disk`
exists(path, disk) == path \in DOMAIN disk /\ disk[path] # Absent

\* The set of files the walk collects; read_dir yields them in an order of
\* its own, so the caller picks one.
\* is_audio_file of every path of `Paths`.
audio_paths == {p \in Paths : is_audio_file(p)} \cup {}

get_audio_files(disk) ==
    {p \in DOMAIN disk :
        exists(p, disk) /\ IF p \in Paths THEN p \in audio_paths ELSE is_audio_file(p)}

\* extension_to_format of the extension of every path of `Paths`.
path_format == [p \in Paths |-> extension_to_format(extension(p))] @@ <<>>

hash_file(path, disk) ==
    IF exists(path, disk) /\ disk[path] # Unreadable
    THEN <<blake3(disk[path])>> ELSE <<>>

file_size(path, disk) ==
    IF exists(path, disk) THEN content_len(disk[path]) ELSE 0

classify_as_new(path_str, hash, disk) ==
    LET format == IF path_str \in Paths THEN path_format[path_str]
                  ELSE extension_to_format(extension(path_str)) IN
    IF Len(format) = 0 THEN <<>>
    ELSE IF ~exists(path_str, disk) THEN <<>>
    ELSE LET md == get_track_metadata(disk[path_str]) IN
         IF Len(md) = 0 THEN <<>>
         ELSE << [kind |-> "New",
                  path |-> path_str,
                  hash |-> hash,
                  size |-> file_size(path_str, disk),
                  duration |-> md[1].duration,
                  format |-> format[1],
                  metadata |-> md[1].metadata] >>

\* A classifier that adopts the id of the first row with the file's hash,
\* whether the row's path is still on disk or not.
classify_file_adopting(path, existing, disk) ==
    LET h == hash_file(path, disk) IN
    IF Len(h) = 0 THEN <<>>
    ELSE
    LET hash == h[1]
        path_match == path \in DOMAIN existing.by_path
        hash_match == hash \in DOMAIN existing.by_hash
    IN  IF path_match /\ existing.by_path[path].hash = hash
        THEN << [kind |-> "Skipped", path |-> path] >>
        ELSE IF ~path_match /\ hash_match
        THEN << [kind |-> "Moved", id |-> existing.by_hash[hash][1].id, path |-> path] >>
        ELSE IF path_match
        THEN << [kind |-> "Modified",
                 id |-> existing.by_path[path].id,
                 path |-> path,
                 hash |-> hash,
                 size |-> file_size(path, disk),
                 duration |-> get_duration(disk[path])] >>
        ELSE classify_as_new(path, hash, disk)

\* A classifier that adopts the id of the last row in load order whose path
\* is gone.
classify_file_adopting_last(path, existing, disk) ==
    LET h == hash_file(path, disk) IN
    IF Len(h) = 0 THEN <<>>
    ELSE
    LET hash == h[1]
        path_match == path \in DOMAIN existing.by_path
        hash_match == hash \in DOMAIN existing.by_hash
        gone == IF hash_match
                THEN SelectSeq(existing.by_hash[hash],
                               LAMBDA e : ~exists(e.path, disk))
                ELSE <<>>
    IN  IF path_match /\ existing.by_path[path].hash = hash
        THEN << [kind |-> "Skipped", path |-> path] >>
        ELSE IF ~path_match /\ hash_match
        THEN IF Len(gone) > 0
             THEN << [kind |-> "Moved", id |-> gone[Len(gone)].id, path |-> path] >>
             ELSE classify_as_new(path, hash, disk)
        ELSE IF path_match
        THEN << [kind |-> "Modified",
                 id |-> existing.by_path[path].id,
                 path |-> path,
                 hash |-> hash,
                 size |-> file_size(path, disk),
                 duration |-> get_duration(disk[path])] >>
        ELSE classify_as_new(path, hash, disk)

\* A classifier that leaves alone the row of a file it cannot read.
classify_file_sparing_unread(path, existing, disk) ==
    LET h == hash_file(path, disk) IN
    IF Len(h) = 0
    THEN IF path \in DOMAIN existing.by_path
         THEN << [kind |-> "Skipped", path |-> path] >> ELSE <<>>
    ELSE
    LET hash == h[1]
        path_match == path \in DOMAIN existing.by_path
        hash_match == hash \in DOMAIN existing.by_hash
        gone == IF hash_match
                THEN SelectSeq(existing.by_hash[hash],
                               LAMBDA e : ~exists(e.path, disk))
                ELSE <<>>
    IN  IF path_match /\ existing.by_path[path].hash = hash
        THEN << [kind |-> "Skipped", path |-> path] >>
        ELSE IF ~path_match /\ hash_match
        THEN IF Len(gone) > 0
             THEN << [kind |-> "Moved", id |-> gone[1].id, path |-> path] >>
             ELSE classify_as_new(path, hash, disk)
        ELSE IF path_match
        THEN << [kind |-> "Modified",
                 id |-> existing.by_path[path].id,
                 path |-> path,
                 hash |-> hash,
                 size |-> file_size(path, disk),
                 duration |-> get_duration(disk[path])] >>
        ELSE classify_as_new(path, hash, disk)

classify_file(path, existing, disk) ==
    LET h == hash_file(path, disk) IN
    IF Len(h) = 0 THEN <<>>
    ELSE
    LET hash == h[1]
        path_match == path \in DOMAIN existing.by_path
        hash_match == hash \in DOMAIN existing.by_hash
        gone == IF hash_match
                THEN SelectSeq(existing.by_hash[hash],
                               LAMBDA e : ~exists(e.path, disk))
                ELSE <<>>
    IN  IF path_match /\ existing.by_path[path].hash = hash
        THEN << [kind |-> "Skipped", path |-> path] >>
        ELSE IF ~path_match /\ hash_match
        THEN IF Len(gone) > 0
             THEN << [kind |-> "Moved", id |-> gone[1].id, path |-> path] >>
             ELSE classify_as_new(path, hash, disk)
        ELSE IF path_match
        THEN << [kind |-> "Modified",
                 id |-> existing.by_path[path].id,
                 path |-> path,
                 hash |-> hash,
                 size |-> file_size(path, disk),
                 duration |-> get_duration(disk[path])] >>
        ELSE classify_as_new(path, hash, disk)

of_kind(classifications, kind) ==
    SelectSeq(classifications, LAMBDA c : c.kind = kind)

aggregate(classifications) ==
    LET skipped == of_kind(classifications, "Skipped")
        moved == of_kind(classifications, "Moved")
    IN [skipped |-> collect([i \in DOMAIN skipped |-> skipped[i].path]),
        moved |-> collect([i \in DOMAIN moved |->
                             [id |-> moved[i].id, path |-> moved[i].path]]),
        modified |-> of_kind(classifications, "Modified"),
        new_files |-> of_kind(classifications, "New")]

\* Flattens a sequence of Option values (filter_map / `if let Some`).
RECURSIVE flatten(_)
flatten(options) ==
    IF Len(options) = 0 THEN <<>> ELSE Head(options) \o flatten(Tail(options))

\* A reconciliation that leaves the lists as aggregate made them.
resolve_nothing(res, disk) == res

\* A reconciliation that takes the conflicting entries out of the modified
\* list and classifies none of them again.
resolve_by_dropping(res, disk) ==
    [res EXCEPT
       !.modified = SelectSeq(res.modified, LAMBDA m :
                       m.id \notin {res.moved[i].id : i \in DOMAIN res.moved})]

\* The entries extract_if takes out of results.modified.
conflicting(res) ==
    LET moved_ids == {res.moved[i].id : i \in DOMAIN res.moved} IN
    SelectSeq(res.modified, LAMBDA m : m.id \in moved_ids)

resolve_conflicts(res, disk) ==
    LET moved_ids == {res.moved[i].id : i \in DOMAIN res.moved}
        extracted == conflicting(res)
    IN [res EXCEPT
          !.modified = SelectSeq(res.modified, LAMBDA m : m.id \notin moved_ids),
          !.new_files = res.new_files \o
              flatten(collect([i \in DOMAIN extracted |->
                  classify_as_new(extracted[i].path, extracted[i].hash, disk)]))]

detect_deletions(res, existing) ==
    LET known_paths ==
            {res.skipped[i] : i \in DOMAIN res.skipped}
            \cup {res.moved[i].path : i \in DOMAIN res.moved}
            \cup {res.new_files[i].path : i \in DOMAIN res.new_files}
            \cup {res.modified[i].path : i \in DOMAIN res.modified}
    IN {existing.by_path[p].id : p \in DOMAIN existing.by_path \ known_paths}

(***************************************************************************)
(* Classification by size and modification time (scanner/classify.rs,      *)
(* scanner/types.rs).                                                      *)
(***************************************************************************)

\* The path classify_file is given, and the path of a file that is gone.
TimedPath == "A/1.flac"

GonePath == "B/3.M4A"

\* SystemTime::modified() in microseconds since the epoch.
Mtimes == {10, 20}

\* ExistingFiles: by_path maps a path to (id, hash, size, mtime_us), by_hash
\* keeps every (id, path) of a hash in load order.
RECURSIVE existing_files_of(_, _, _)
existing_files_of(rows, by_path, by_hash) ==
    IF Len(rows) = 0 THEN [by_path |-> by_path, by_hash |-> by_hash]
    ELSE LET row == Head(rows) IN
         existing_files_of(
            Tail(rows),
            (row.path :> [id |-> row.id, hash |-> row.hash,
                          size |-> row.size, mtime |-> row.mtime]) @@ by_path,
            (row.hash :> Append(IF row.hash \in DOMAIN by_hash
                                THEN by_hash[row.hash] ELSE <<>>,
                                [id |-> row.id, path |-> row.path])) @@ by_hash)

\* fs::metadata(path): the length and the modification time of the file.
fs_metadata(path, disk) ==
    IF Len(disk[path]) = 0 THEN <<>>
    ELSE << [len |-> content_len(disk[path][1].content),
             modified |-> disk[path][1].mtime] >>

\* hash_file(path) of classify.rs.
hash_of_file(path, disk) ==
    IF Len(disk[path]) = 0 \/ disk[path][1].content = Unreadable THEN <<>>
    ELSE << blake3(disk[path][1].content) >>

\* classify_as_new(path_str, hash, mtime) of classify.rs.
classify_as_new_at(path_str, hash, mtime, disk) ==
    LET format == extension_to_format(extension(path_str)) IN
    IF Len(format) = 0 THEN <<>>
    ELSE IF Len(disk[path_str]) = 0 THEN <<>>
    ELSE LET md == get_track_metadata(disk[path_str][1].content) IN
         IF Len(md) = 0 THEN <<>>
         ELSE << [kind |-> "New",
                  path |-> path_str,
                  hash |-> hash,
                  size |-> content_len(disk[path_str][1].content),
                  duration |-> md[1].duration,
                  mtime |-> mtime,
                  format |-> format[1],
                  metadata |-> md[1].metadata] >>

\* classify_file(path, existing) of classify.rs: a file whose path is known
\* is hashed only when its size or its modification time is not the recorded
\* one, and is then Modified whether the hash is the recorded one or not.
classify_file_by_mtime(path, existing, disk) ==
    LET meta == fs_metadata(path, disk)
        h == hash_of_file(path, disk)
    IN
    IF Len(meta) = 0 THEN <<>>
    ELSE
    LET size == meta[1].len
        mtime == meta[1].modified
    IN  IF path \in DOMAIN existing.by_path
        THEN IF /\ size = existing.by_path[path].size
                /\ mtime = existing.by_path[path].mtime
             THEN << [kind |-> "Skipped", path |-> path] >>
             ELSE IF Len(h) = 0 THEN <<>>
             ELSE << [kind |-> "Modified",
                      id |-> existing.by_path[path].id,
                      path |-> path,
                      hash |-> h[1],
                      size |-> size,
                      duration |-> get_duration(disk[path][1].content),
                      mtime |-> mtime] >>
        ELSE IF Len(h) = 0 THEN <<>>
        ELSE LET gone == IF h[1] \in DOMAIN existing.by_hash
                         THEN SelectSeq(existing.by_hash[h[1]],
                                        LAMBDA e : Len(disk[e.path]) = 0)
                         ELSE <<>>
             IN IF Len(gone) > 0
                THEN << [kind |-> "Moved", id |-> gone[1].id, path |-> path,
                         mtime |-> mtime] >>
                ELSE classify_as_new_at(path, h[1], mtime, disk)

\* No file is given to the classifier of classify.rs.
InitClassifier ==
    /\ on_disk = [p \in {TimedPath, GonePath} |-> <<>>]
    /\ cataloged = <<>>
    /\ classification = <<>>
    /\ collected = aggregate(<<>>)
    /\ reconciled = <<>>

(***************************************************************************)
(* Stager (scanner/mod.rs, scanner/prepare.rs).                            *)
(***************************************************************************)

DISC_FOLDER_PATTERN == << <<"d", "i", "s", "c">>, <<"c", "d">>, <<"d", "i", "s", "k">> >>

\* str::trim(): drops the white space at both ends.
RECURSIVE trim(_)
trim(chars) ==
    IF Len(chars) = 0 THEN chars
    ELSE IF Head(chars) = " " THEN trim(Tail(chars))
    ELSE IF chars[Len(chars)] = " " THEN trim(SubSeq(chars, 1, Len(chars) - 1))
    ELSE chars

is_disc_folder(name) ==
    LET lower == [i \in DOMAIN name |-> char_to_ascii_lowercase(name[i])] IN
    \E k \in DOMAIN DISC_FOLDER_PATTERN :
        LET prefix == DISC_FOLDER_PATTERN[k] IN
        /\ Len(lower) >= Len(prefix)
        /\ SubSeq(lower, 1, Len(prefix)) = prefix
        /\ LET rest == trim(SubSeq(lower, Len(prefix) + 1, Len(lower))) IN
           /\ \A i \in DOMAIN rest : rest[i] \in AsciiDigits
           /\ Len(rest) > 0

\* Path::file_name(): the last component, when it is a name.
file_name(components) ==
    IF Len(components) = 0 THEN <<>>
    ELSE IF components[Len(components)] = CurDir THEN <<>>
    ELSE << components[Len(components)] >>

album_directory(file_path) ==
    LET parent == parent_dirs(file_path)
        dir_name == file_name(parent)
    IN IF Len(dir_name) = 0 THEN <<>>
       ELSE IF is_disc_folder(dir_name[1])
            THEN << SubSeq(parent, 1, Len(parent) - 1) >>
            ELSE << parent >>

\* album_directory(Path::new(&nf.path)).unwrap_or_default()
album_dir_or_default(p) ==
    IF Len(album_directory(p)) = 0 THEN <<>> ELSE album_directory(p)[1]

\* album_dir_or_default of every path of `Paths`.
album_dir == [p \in Paths |-> album_dir_or_default(p)] @@ <<>>

\* The key of album_map: (album_title, album_dir)
album_key(nf) ==
    << nf.metadata.album,
       IF nf.path \in Paths THEN album_dir[nf.path] ELSE album_dir_or_default(nf.path) >>

\* Option<T> into a nullable column.
nullable(option) == IF Len(option) = 0 THEN NULL ELSE option[1]

\* The inner loops of collect_artists over the artist names of the new files,
\* minting `uuid`, `uuid + 1`, ... for the names not mapped yet.
RECURSIVE collect_artists_loop(_, _, _, _)
collect_artists_loop(names, all_artists, new_artist_records, uuid) ==
    IF Len(names) = 0
    THEN [all_artists |-> all_artists, records |-> new_artist_records]
    ELSE IF Head(names) \in DOMAIN all_artists
    THEN collect_artists_loop(Tail(names), all_artists, new_artist_records, uuid)
    ELSE collect_artists_loop(
            Tail(names),
            (Head(names) :> uuid) @@ all_artists,
            Append(new_artist_records, [id |-> uuid, name |-> Head(names)]),
            uuid + 1)

collect_artists(res, existing_artists, uuid) ==
    collect_artists_loop(
        flatten(collect([i \in DOMAIN res.new_files |->
                    collect([j \in DOMAIN res.new_files[i].metadata.artists |->
                        res.new_files[i].metadata.artists[j].artist])])),
        existing_artists, <<>>, uuid)

\* A loop in which a later file's year fills in for a first file that has
\* none.
RECURSIVE collect_albums_loop_filling(_, _)
collect_albums_loop_filling(new_files, seen) ==
    IF Len(new_files) = 0 THEN seen
    ELSE LET nf == Head(new_files) IN
         IF \E i \in DOMAIN seen : seen[i].key = album_key(nf)
         THEN collect_albums_loop_filling(
                 Tail(new_files),
                 collect([i \in DOMAIN seen |->
                    IF seen[i].key = album_key(nf) /\ seen[i].year = <<>>
                    THEN [seen[i] EXCEPT !.year = nf.metadata.year]
                    ELSE seen[i]]))
         ELSE collect_albums_loop_filling(
                 Tail(new_files),
                 Append(seen, [key |-> album_key(nf), year |-> nf.metadata.year]))

\* The loop of collect_albums: the keys in first-seen order, each with the
\* year of the file that inserted it.
RECURSIVE collect_albums_loop(_, _)
collect_albums_loop(new_files, seen) ==
    IF Len(new_files) = 0 THEN seen
    ELSE LET nf == Head(new_files) IN
         IF \E i \in DOMAIN seen : seen[i].key = album_key(nf)
         THEN collect_albums_loop(Tail(new_files), seen)
         ELSE collect_albums_loop(
                 Tail(new_files),
                 Append(seen, [key |-> album_key(nf), year |-> nf.metadata.year]))

\* album_map of the keys seen, the i-th key minted `uuid + i - 1`.
RECURSIVE album_map_of(_, _, _)
album_map_of(seen, uuid, album_map) ==
    IF Len(seen) = 0 THEN album_map
    ELSE album_map_of(Tail(seen), uuid + 1, (Head(seen).key :> uuid) @@ album_map)

\* A collect_albums that maps the keys to ids and stages no album row.
collect_albums_unstaged(res, uuid) ==
    [album_map |-> album_map_of(collect_albums_loop(res.new_files, <<>>), uuid, <<>>),
     albums |-> <<>>]

collect_albums(res, uuid) ==
    LET seen == collect_albums_loop(res.new_files, <<>>) IN
    [album_map |-> album_map_of(seen, uuid, <<>>),
     albums |-> collect([i \in DOMAIN seen |->
                    [id |-> uuid + i - 1,
                     title |-> seen[i].key[1],
                     year |-> nullable(seen[i].year)]])]

\* A collect_changes that mints a deletion id for every deleted file.
collect_changes_minting_each(res, deleted_ids, uuid) ==
    [moved |-> collect([i \in DOMAIN res.moved |->
                  [id |-> res.moved[i].id, new_path |-> res.moved[i].path]]),
     modified |-> collect([i \in DOMAIN res.modified |->
                  [id |-> res.modified[i].id,
                   hash |-> res.modified[i].hash,
                   size |-> res.modified[i].size,
                   duration |-> res.modified[i].duration]]),
     deleted |-> {[file_id |-> f, deletion_id |-> uuid + f] : f \in deleted_ids}]

collect_changes(res, deleted_ids, uuid) ==
    [moved |-> collect([i \in DOMAIN res.moved |->
                  [id |-> res.moved[i].id, new_path |-> res.moved[i].path]]),
     modified |-> collect([i \in DOMAIN res.modified |->
                  [id |-> res.modified[i].id,
                   hash |-> res.modified[i].hash,
                   size |-> res.modified[i].size,
                   duration |-> res.modified[i].duration]]),
     deleted |-> {[file_id |-> f, deletion_id |-> uuid] : f \in deleted_ids}]

\* The credits of the i-th new file, whose track is `track_id`.
staging_credits_of(nf, track_id, all_artists) ==
    flatten(collect([j \in DOMAIN nf.metadata.artists |->
        IF nf.metadata.artists[j].artist \in DOMAIN all_artists
        THEN << [track |-> track_id,
                 artist |-> all_artists[nf.metadata.artists[j].artist],
                 ord |-> j - 1,
                 role |-> nullable(nf.metadata.artists[j].role)] >>
        ELSE <<>>]))

\* `uuid` is the first number Uuid::new_v4 hands out in this scan.
prepare_staging_data(res, existing_artists, deleted_ids, uuid) ==
    LET a == collect_artists(res, existing_artists, uuid)
        uuid_albums == uuid + Len(a.records)
        b == collect_albums(res, uuid_albums)
        uuid_files == uuid_albums + Len(b.albums)
        file_id(i) == uuid_files + 2 * (i - 1)
        track_id(i) == uuid_files + 2 * (i - 1) + 1
        c == collect_changes(res, deleted_ids, uuid_files + 2 * Len(res.new_files))
    IN [artists |-> a.records,
        albums |-> b.albums,
        files |-> collect([i \in DOMAIN res.new_files |->
                    [id |-> file_id(i),
                     path |-> res.new_files[i].path,
                     hash |-> res.new_files[i].hash,
                     size |-> res.new_files[i].size,
                     format |-> res.new_files[i].format,
                     duration |-> res.new_files[i].duration]]),
        tracks |-> collect([i \in DOMAIN res.new_files |->
                    [id |-> track_id(i),
                     file |-> file_id(i),
                     title |-> res.new_files[i].metadata.title,
                     album |-> IF album_key(res.new_files[i]) \in DOMAIN b.album_map
                               THEN b.album_map[album_key(res.new_files[i])]
                               ELSE NULL,
                     disc_number |-> nullable(res.new_files[i].metadata.disc_number),
                     track_number |-> nullable(res.new_files[i].metadata.track_number),
                     genre |-> res.new_files[i].metadata.genre]]),
        credits |-> flatten(collect([i \in DOMAIN res.new_files |->
                    staging_credits_of(res.new_files[i], track_id(i), a.all_artists)])),
        moved |-> c.moved,
        modified |-> c.modified,
        deleted |-> c.deleted]

(***************************************************************************)
(* Committer (scanner/staging.rs, BATCH_SQL).                              *)
(***************************************************************************)

\* The statements of BATCH_SQL between BEGIN TRANSACTION and COMMIT.
NumStatements == 9

\* UPDATE file .. FROM staging sm WHERE file.id = sm.id: the staged row a file
\* row takes its values from.  When several staged rows join one file row,
\* DuckDB keeps one of them; `win` says which.
joined(staged, id, win) ==
    LET m == SelectSeq(staged, LAMBDA r : r.id = id) IN
    IF Len(m) = 0 THEN <<>>
    ELSE IF win = "first" THEN << m[1] >> ELSE << m[Len(m)] >>

\* SELECT DISTINCT deletion_id, now() FROM staging_deleted
RECURSIVE distinct_deletions(_, _)
distinct_deletions(ids, now) ==
    IF ids = {} THEN <<>>
    ELSE LET id == CHOOSE x \in ids : \A y \in ids : x <= y IN
         << [id |-> id, timestamp |-> now] >>
         \o distinct_deletions(ids \ {id}, now)

\* The k-th statement of BATCH_SQL applied to the tables t.
statement(k, t, st, now, win) ==
    CASE k = 1 -> [t EXCEPT !.artist = @ \o st.artists]
      [] k = 2 -> [t EXCEPT !.album = @ \o st.albums]
      [] k = 3 -> [t EXCEPT !.file = @ \o
                     collect([i \in DOMAIN st.files |->
                        [id |-> st.files[i].id,
                         path |-> st.files[i].path,
                         hash |-> st.files[i].hash,
                         size |-> st.files[i].size,
                         format |-> st.files[i].format,
                         duration |-> st.files[i].duration,
                         added |-> now,
                         deletion |-> NULL]])]
      [] k = 4 -> [t EXCEPT !.track = @ \o
                     collect([i \in DOMAIN st.tracks |->
                        [id |-> st.tracks[i].id,
                         file |-> st.tracks[i].file,
                         start_position |-> NULL,
                         end_position |-> NULL,
                         title |-> st.tracks[i].title,
                         album |-> st.tracks[i].album,
                         disc_number |-> st.tracks[i].disc_number,
                         track_number |-> st.tracks[i].track_number,
                         genre |-> st.tracks[i].genre,
                         rating |-> NULL]])]
      [] k = 5 -> [t EXCEPT !.credit = @ \o st.credits]
      [] k = 6 -> [t EXCEPT !.file =
                     collect([i \in DOMAIN t.file |->
                        LET sm == joined(st.moved, t.file[i].id, win) IN
                        IF Len(sm) = 0 THEN t.file[i]
                        ELSE [t.file[i] EXCEPT !.path = sm[1].new_path]])]
      [] k = 7 -> [t EXCEPT !.file =
                     collect([i \in DOMAIN t.file |->
                        LET sm == joined(st.modified, t.file[i].id, win) IN
                        IF Len(sm) = 0 THEN t.file[i]
                        ELSE [t.file[i] EXCEPT !.hash = sm[1].hash,
                                               !.size = sm[1].size,
                                               !.duration = sm[1].duration]])]
      [] k = 8 -> [t EXCEPT !.deletion = @ \o
                     distinct_deletions({d.deletion_id : d \in st.deleted}, now)]
      [] k = 9 -> [t EXCEPT !.file =
                     collect([i \in DOMAIN t.file |->
                        LET sd == {d \in st.deleted : d.file_id = t.file[i].id} IN
                        IF sd = {} THEN t.file[i]
                        ELSE [t.file[i] EXCEPT !.deletion =
                                 (CHOOSE d \in sd : TRUE).deletion_id]])]

\* A batch that marks the deleted files before it inserts the deletion row.
RECURSIVE run_statements_marking_first(_, _, _, _, _)
run_statements_marking_first(k, t, st, now, win) ==
    IF k = 0 THEN t
    ELSE statement(CASE k = 8 -> 9 [] k = 9 -> 8 [] OTHER -> k,
                   run_statements_marking_first(k - 1, t, st, now, win),
                   st, now, win)

\* The tables after the first k statements.
RECURSIVE run_statements(_, _, _, _, _)
run_statements(k, t, st, now, win) ==
    IF k = 0 THEN t
    ELSE statement(k, run_statements(k - 1, t, st, now, win), st, now, win)

\* A batch without BEGIN TRANSACTION: what ran before the failing statement
\* stays.
execute_batch_autocommit(t, st, now, win, fail_at) ==
    IF fail_at = 0
    THEN [ok |-> TRUE, db |-> run_statements(NumStatements, t, st, now, win)]
    ELSE [ok |-> FALSE, db |-> run_statements(fail_at - 1, t, st, now, win)]

\* execute_batch(BATCH_SQL).  fail_at = 0: every statement and the COMMIT
\* succeed.  fail_at = k > 0: statement k fails, execute_batch returns the
\* error with the transaction still open, scan and main return it and the
\* process ends; closing the connection discards the open transaction.
execute_batch(t, st, now, win, fail_at) ==
    IF fail_at = 0
    THEN [ok |-> TRUE, db |-> run_statements(NumStatements, t, st, now, win)]
    ELSE [ok |-> FALSE, db |-> t]

(***************************************************************************)
(* scan (scanner/mod.rs).                                                  *)
(***************************************************************************)

Max(S) == CHOOSE x \in S : \A y \in S : y <= x

\* Every UUID the catalog holds.
uuids_of(t) ==
    {t.file[i].id : i \in DOMAIN t.file}
    \cup {t.track[i].id : i \in DOMAIN t.track}
    \cup {t.album[i].id : i \in DOMAIN t.album}
    \cup {t.artist[i].id : i \in DOMAIN t.artist}
    \cup {t.deletion[i].id : i \in DOMAIN t.deletion}

\* Uuid::new_v4(): a number that no row holds.
new_v4(t) == Max(uuids_of(t) \cup {0}) + 1

\* The album directories of the files whose track is attached to album `id`.
dirs_of_album(id, tracks, files) ==
    {album_key([path |-> files[f].path, metadata |-> [album |-> ""]])[2] :
       f \in {g \in DOMAIN files :
                \E i \in DOMAIN tracks :
                   tracks[i].file = files[g].id /\ tracks[i].album = id}}

\* The cataloged albums a staged album could be taken for: same title, and a
\* file in the same album directory.
same_albums(staged_album, st, t) ==
    {t.album[e].id : e \in {x \in DOMAIN t.album :
        /\ t.album[x].title = staged_album.title
        /\ dirs_of_album(t.album[x].id, t.track, t.file)
              \cap dirs_of_album(staged_album.id, st.tracks, st.files) # {}}}

\* A scan that attaches a new file to the cataloged album of its title and
\* directory when there is one, and stages an album row only when there is
\* none.
scan_stage_reusing_albums(audio_files, k, disk, disk_later, t) ==
    LET existing_artists == load_existing_artists(t.artist)
        existing_files == load_existing_files(t.file)
        classifications ==
            flatten(collect([i \in DOMAIN audio_files |->
                classify_file(audio_files[i], existing_files,
                              IF i <= k THEN disk ELSE disk_later)]))
        aggregated == aggregate(classifications)
        res == resolve_conflicts(aggregated, disk_later)
        deleted_ids == detect_deletions(res, existing_files)
        st == prepare_staging_data(res, existing_artists, deleted_ids, new_v4(t))
        reused(id) ==
            IF \E i \in DOMAIN st.albums :
                  st.albums[i].id = id /\ same_albums(st.albums[i], st, t) # {}
            THEN CHOOSE e \in UNION {same_albums(st.albums[i], st, t) :
                                       i \in {j \in DOMAIN st.albums : st.albums[j].id = id}} :
                    TRUE
            ELSE id
    IN [res |-> res,
        conflicting |-> conflicting(aggregated),
        deleted_ids |-> deleted_ids,
        staging_data |->
           [st EXCEPT
              !.albums = SelectSeq(st.albums, LAMBDA a : same_albums(a, st, t) = {}),
              !.tracks = collect([i \in DOMAIN st.tracks |->
                            [st.tracks[i] EXCEPT !.album = reused(@)]])]]

\* A scan that detects the deletions before it resolves the conflicts.
scan_stage_deleting_early(audio_files, k, disk, disk_later, t) ==
    LET existing_artists == load_existing_artists(t.artist)
        existing_files == load_existing_files(t.file)
        classifications ==
            flatten(collect([i \in DOMAIN audio_files |->
                classify_file(audio_files[i], existing_files,
                              IF i <= k THEN disk ELSE disk_later)]))
        aggregated == aggregate(classifications)
        deleted_ids == detect_deletions(aggregated, existing_files)
        res == resolve_conflicts(aggregated, disk_later)
    IN [res |-> res,
        conflicting |-> conflicting(aggregated),
        deleted_ids |-> deleted_ids,
        staging_data |-> prepare_staging_data(res, existing_artists, deleted_ids,
                                              new_v4(t))]

\* Steps 1 to 7 of scan.  `audio_files` is the walk's list; the first `k`
\* files are classified while the directory is `disk`, the others (and the
\* reclassification in resolve_conflicts) when it is `disk_later`.
scan_stage(audio_files, k, disk, disk_later, t) ==
    LET existing_artists == load_existing_artists(t.artist)
        existing_files == load_existing_files(t.file)
        classifications ==
            flatten(collect([i \in DOMAIN audio_files |->
                classify_file(audio_files[i], existing_files,
                              IF i <= k THEN disk ELSE disk_later)]))
        aggregated == aggregate(classifications)
        res == resolve_conflicts(aggregated, disk_later)
        deleted_ids == detect_deletions(res, existing_files)
    IN [res |-> res,
        conflicting |-> conflicting(aggregated),
        deleted_ids |-> deleted_ids,
        staging_data |-> prepare_staging_data(res, existing_artists, deleted_ids,
                                              new_v4(t))]

\* What a scan that returns an error leaves behind: no ScanResults.
no_results(status) ==
    [status |-> status, skipped |-> <<>>, moved |-> <<>>, modified |-> <<>>,
     new |-> <<>>, deleted |-> {}, conflicting |-> <<>>]

\* Steps 8 and 9 of scan, and what the run leaves behind: the ScanResults it
\* returns, with the ids it tombstoned and the paths resolve_conflicts took
\* out of the modified list.
scan_commit(staged, t, now, win, fail_at) ==
    LET batch == execute_batch(t, staged.staging_data, now, win, fail_at) IN
    [db |-> batch.db,
     results |->
        IF ~batch.ok THEN no_results("err")
        ELSE [status |-> "ok",
              skipped |-> staged.res.skipped,
              moved |-> staged.res.moved,
              modified |-> collect([i \in DOMAIN staged.res.modified |->
                              [id |-> staged.res.modified[i].id,
                               path |-> staged.res.modified[i].path]]),
              new |-> collect([i \in DOMAIN staged.res.new_files |->
                              staged.res.new_files[i].path]),
              deleted |-> staged.deleted_ids,
              conflicting |-> collect([i \in DOMAIN staged.conflicting |->
                              staged.conflicting[i].path])]]

(***************************************************************************)
(* The query server (backend/src/server.rs).                               *)
(***************************************************************************)

\* mpsc::channel::<io::Result<Bytes>>(8)
ChannelCapacity == 8

\* StatusCode::OK, BAD_REQUEST, INTERNAL_SERVER_ERROR
OK == 200

BAD_REQUEST == 400

INTERNAL_SERVER_ERROR == 500

\* The POST /query requests of a behaviour, in the order the server takes
\* them: two, so that a task can wait for the mutex another one holds.
Requests == {1, 2}

\* The bodies a client posts, by what DuckDB makes of the SQL: `sql` tells
\* whether prepare returns an error ("bad_sql"), query_arrow returns an error
\* ("bad_exec") or panics ("panic"), or both succeed ("ok"); `batches` is the
\* number of record batches of the result, and `bad_batch` the batch
\* ipc_writer.write returns an error for (0: none).
Bodies ==
    { [sql |-> "bad_sql", batches |-> 0, bad_batch |-> 0],
      [sql |-> "bad_exec", batches |-> 0, bad_batch |-> 0],
      [sql |-> "panic", batches |-> 0, bad_batch |-> 0],
      [sql |-> "ok", batches |-> 0, bad_batch |-> 0],
      [sql |-> "ok", batches |-> MaxBatches, bad_batch |-> 0],
      [sql |-> "ok", batches |-> MaxBatches, bad_batch |-> 2] }

\* A DuckDB that prepares any text.
prepare_anything(body) == "Ok"

\* conn.prepare(&body): Ok(stmt) or Err(e).
prepare(body) == IF body.sql = "bad_sql" THEN "Err" ELSE "Ok"

\* stmt.query_arrow([]): Ok(batches), Err(e), or a panic.
query_arrow(body) ==
    CASE body.sql = "bad_exec" -> "Err"
      [] body.sql = "panic" -> "panic"
      [] OTHER -> "Ok"

\* The messages of an Arrow IPC stream, each one chunk of the body.
schema_chunk == [msg |-> "schema", no |-> 0]

batch_chunk(k) == [msg |-> "batch", no |-> k]

eos_chunk == [msg |-> "eos", no |-> 0]

\* Date tags with a year around the year of the clock.
NearDates ==
    { <<"2", "0", "2", "6">>, <<"2", "0", "2", "7">>, <<"2", "0", "2", "8">>,
      <<"2", "0", "2", "9", "-", "0", "1">>, <<"2", "0", "3", "0">> }

\* The files the extractor is run on, each by what the probe reads from its
\* bytes: the tags and the duration.
ExtractedFiles ==
    { [tags |-> embedded_tags(c), duration |-> content_duration(c)] :
        c \in FolderContents }
    \cup { [tags |-> << [key |-> "TrackTitle", value |-> "T"],
                        [key |-> "Date", value |-> date] >>,
            duration |-> 30] : date \in NearDates }

\* No file has been extracted; the clock reads the year of the scans.
InitExtractor ==
    /\ now_year = current_year
    /\ returned = {}
    /\ file_ext = <<>>
    /\ is_audio = FALSE
    /\ file_format = <<>>

(***************************************************************************)
(* Opening the catalog and migrating its schema (backend/src/db.rs).       *)
(***************************************************************************)

\* MIGRATIONS: the versions of the known migrations, as listed.
MIGRATIONS == [i \in 1..MaxMigrations |-> i]

\* A catalog file that does not exist yet: no meta schema, no migration run.
\* `meta` is "absent" (no schema meta), "schema" (no table meta.version) or
\* "table"; `version` is the value of the row of meta.version, None while
\* the table has no row; `schema` lists the migrations whose SQL has been run
\* on the file, in order.
new_store == [meta |-> "absent", version |-> <<>>, schema |-> <<>>]

\* The statements of init_db_version_metadata, each of which does nothing on
\* a file that has its effect already.
init_statement(k, file) ==
    CASE k = 1 /\ file.meta = "absent" -> [file EXCEPT !.meta = "schema"]
      [] k = 2 /\ file.meta = "schema" -> [file EXCEPT !.meta = "table"]
      [] k = 3 /\ file.version = <<>> -> [file EXCEPT !.version = <<0>>]
      [] OTHER -> file

NumInitStatements == 3

\* execute_batch of the first `n` statements of init_db_version_metadata.
RECURSIVE init_statements(_, _)
init_statements(n, file) ==
    IF n = 0 THEN file ELSE init_statement(n, init_statements(n - 1, file))

\* A transaction that is committed when it is dropped.
drop_commits(file, work) == work

\* Transaction::drop without commit: the rollback leaves the file as it was
\* committed last.
drop_transaction(file, work) == file

\* The catalog file before the first start of the process.
InitGetDb ==
    /\ store = new_store
    /\ tx = <<>>
    /\ get_db_pc = "down"
    /\ pending_migrations = <<>>
    /\ startups = 0

\* The server before main has started.
InitServer ==
    /\ main_pc = "start"
    /\ mutex = 0
    /\ poisoned = FALSE
    /\ request = [r \in Requests |-> <<>>]
    /\ task = [r \in Requests |-> "none"]
    /\ buf = [r \in Requests |-> <<>>]
    /\ written = [r \in Requests |-> 0]
    /\ ready = [r \in Requests |-> [sends |-> 0, value |-> "none"]]
    /\ chan = [r \in Requests |-> <<>>]
    /\ response = [r \in Requests |-> [status |-> 0, body |-> <<>>]]
    /\ client = [r \in Requests |-> "none"]
    /\ writer_pc = "open"
    /\ writer_buf = <<>>
    /\ bytes_written = 0
    /\ send_failed = FALSE
    /\ writer_tx = <<>>
    /\ rx = "open"
    /\ body_stream = <<>>

(***************************************************************************)
(* The state machine.                                                      *)
(***************************************************************************)

\* The orders in which read_dir can yield the files of a set.
orders(S) ==
    {o \in [1..Cardinality(S) -> S] : \A i, j \in 1..Cardinality(S) : o[i] = o[j] => i = j}

Init ==
    /\ fs = [p \in Paths |-> Absent]
    /\ db = [file |-> <<>>, track |-> <<>>, album |-> <<>>, artist |-> <<>>,
             credit |-> <<>>, deletion |-> <<>>]
    /\ scans = 0
    /\ changes = 0
    /\ results = no_results("none")
    /\ scanned = fs
    /\ InitServer
    /\ InitExtractor
    /\ InitGetDb
    /\ InitClassifier

\* The user writes a file (a new one, or new bytes over an old one).
FsWrite(p, c) ==
    /\ changes < MaxChanges
    /\ changes' = changes + 1
    /\ fs[p] # c
    /\ fs' = [fs EXCEPT ![p] = c]
    /\ UNCHANGED <<db, scans, results, scanned>>
    /\ UNCHANGED <<server_vars, extract_vars, get_db_vars, classify_vars>>

\* The user removes a file.
FsRemove(p) ==
    /\ changes < MaxChanges
    /\ changes' = changes + 1
    /\ fs[p] # Absent
    /\ fs' = [fs EXCEPT ![p] = Absent]
    /\ UNCHANGED <<db, scans, results, scanned>>
    /\ UNCHANGED <<server_vars, extract_vars, get_db_vars, classify_vars>>

\* The user renames a file.
FsMove(p, q) ==
    /\ changes < MaxChanges
    /\ changes' = changes + 1
    /\ fs[p] # Absent
    /\ fs[q] = Absent
    /\ fs' = [fs EXCEPT ![p] = Absent, ![q] = fs[p]]
    /\ UNCHANGED <<db, scans, results, scanned>>
    /\ UNCHANGED <<server_vars, extract_vars, get_db_vars, classify_vars>>

\* The staged rows that can win an UPDATE .. FROM: it matters only when two
\* staged rows carry one id.
wins(staged) ==
    IF \/ \E i, j \in DOMAIN staged.moved :
             i # j /\ staged.moved[i].id = staged.moved[j].id
       \/ \E i, j \in DOMAIN staged.modified :
             i # j /\ staged.modified[i].id = staged.modified[j].id
    THEN {"first", "last"} ELSE {"first"}

\* scanner::scan(collection_path, &conn) on a directory nobody changes
\* meanwhile, when the commit succeeds.  The clock ticks between two scans.
ScanRuns(audio_files) ==
    /\ scans < MaxScans
    /\ \E staged \in {scan_stage(audio_files, Len(audio_files), fs, fs, db)} :
       \E win \in wins(staged.staging_data) :
       \E out \in {scan_commit(staged, db, scans + 1, win, 0)} :
          /\ db' = out.db
          /\ results' = out.results
    /\ scans' = scans + 1
    /\ scanned' = fs
    /\ UNCHANGED <<fs, changes>>

\* A process start: main opens the catalog and runs one scan.
Scan(audio_files) ==
    /\ ScanRuns(audio_files)
    /\ UNCHANGED <<server_vars, extract_vars, get_db_vars, classify_vars>>

\* A process start whose scan fails in a statement `fail_at` of the batch.
ScanFails(audio_files) ==
    /\ scans < MaxScans
    /\ \E staged \in {scan_stage(audio_files, Len(audio_files), fs, fs, db)} :
       \E win \in wins(staged.staging_data), fail_at \in 1..NumStatements :
       \E out \in {scan_commit(staged, db, scans + 1, win, fail_at)} :
          /\ db' = out.db
          /\ results' = out.results
    /\ scans' = scans + 1
    /\ UNCHANGED <<fs, changes, scanned>>
    /\ UNCHANGED <<server_vars, extract_vars, get_db_vars, classify_vars>>

\* A scan during which the user removes file `p`: the walk and the first `k`
\* classifications see the directory with `p`, the others see it without.
\* The removal may be one change more than those made between scans.
ScanWhileRemoving(audio_files, k, p) ==
    /\ scans < MaxScans
    /\ changes <= MaxChanges
    /\ fs[p] # Absent
    /\ \E disk_later \in {[fs EXCEPT ![p] = Absent]} :
       \E staged \in {scan_stage(audio_files, k, fs, disk_later, db)} :
       \E win \in wins(staged.staging_data) :
       \E out \in {scan_commit(staged, db, scans + 1, win, 0)} :
          /\ db' = out.db
          /\ results' = out.results
          /\ fs' = disk_later
          /\ scanned' = disk_later
    /\ scans' = scans + 1
    /\ changes' = changes + 1
    /\ UNCHANGED <<server_vars, extract_vars, get_db_vars, classify_vars>>

\* The user takes away the permission to read a file.
FsProtect(p) ==
    /\ changes < MaxChanges
    /\ changes' = changes + 1
    /\ fs[p] \notin {Absent, Unreadable}
    /\ fs' = [fs EXCEPT ![p] = Unreadable]
    /\ UNCHANGED <<db, scans, results, scanned>>
    /\ UNCHANGED <<server_vars, extract_vars, get_db_vars, classify_vars>>

FsChange ==
    \/ \E p \in Paths, c \in Contents : FsWrite(p, c)
    \/ \E p \in Paths : FsRemove(p)
    \/ \E p, q \in Paths : FsMove(p, q)

Next ==
    \/ FsChange
    \/ \E audio_files \in orders(get_audio_files(fs)) : Scan(audio_files)

\* Scans of a quiet directory, all of which commit.
Spec == Init /\ [][Next]_vars

NextFail ==
    \/ Next
    \/ \E audio_files \in orders(get_audio_files(fs)) : ScanFails(audio_files)

\* A catalog that is new, and a collection of two files: 1.flac with the bytes
\* c1 in the collection path or in its folder "cd 1", and 2.flac with any
\* bytes in the collection path or in a folder of any name.
InitAlbums ==
    /\ \E f \in FolderFiles, g \in FolderFiles, c \in FolderContents :
          /\ f.name = "1.flac"
          /\ f.sub \in { <<>>, << <<"c", "d", " ", "1">> >> }
          /\ g.name = "2.flac"
          /\ g.root = f.root
          /\ fs = (folder_path(f) :> "c1") @@ (folder_path(g) :> c)
    /\ db = [file |-> <<>>, track |-> <<>>, album |-> <<>>, artist |-> <<>>,
             credit |-> <<>>, deletion |-> <<>>]
    /\ scans = 0
    /\ changes = 0
    /\ results = no_results("none")
    /\ scanned = fs
    /\ InitServer
    /\ InitExtractor
    /\ InitGetDb
    /\ InitClassifier

NextAlbums == \E audio_files \in orders(get_audio_files(fs)) : Scan(audio_files)

\* Scans of two files in every pair of folders.
SpecAlbums == InitAlbums /\ [][NextAlbums]_vars

\* A collection that holds copies of one file before the first scan.
InitCopies ==
    /\ fs \in {f \in [Paths -> {Absent, "c1"}] :
                 Cardinality({p \in Paths : f[p] # Absent}) >= 2}
    /\ db = [file |-> <<>>, track |-> <<>>, album |-> <<>>, artist |-> <<>>,
             credit |-> <<>>, deletion |-> <<>>]
    /\ scans = 0
    /\ changes = 0
    /\ results = no_results("none")
    /\ scanned = fs
    /\ InitServer
    /\ InitExtractor
    /\ InitGetDb
    /\ InitClassifier

NextCopies ==
    \/ \E p \in Paths : FsWrite(p, "c1")
    \/ \E p \in Paths : FsRemove(p)
    \/ \E p, q \in Paths : FsMove(p, q)
    \/ \E audio_files \in orders(get_audio_files(fs)) : Scan(audio_files)

\* Scans of a collection in which the user copies, renames and removes the
\* copies of one file.
SpecCopies == InitCopies /\ [][NextCopies]_vars

\* Somebody else writes into the catalog: the id of a live file row becomes
\* a text that is no UUID.
CorruptId(i) ==
    /\ changes < MaxChanges
    /\ changes' = changes + 1
    /\ i \in DOMAIN db.file
    /\ db.file[i].deletion = NULL
    /\ db.file[i].id > 0
    /\ db' = [db EXCEPT !.file[i].id = 0 - i]
    /\ UNCHANGED <<fs, scans, results, scanned>>
    /\ UNCHANGED <<server_vars, extract_vars, get_db_vars, classify_vars>>

\* A hash blob cut short by one byte.
truncated(hash) == CASE hash = "h1" -> "h1-" [] hash = "h2" -> "h2-" [] OTHER -> hash

\* Somebody else writes into the catalog: the hash of a live file row loses
\* a byte.
CorruptHash(i) ==
    /\ changes < MaxChanges
    /\ changes' = changes + 1
    /\ i \in DOMAIN db.file
    /\ db.file[i].deletion = NULL
    /\ blob_len(db.file[i].hash) = 32
    /\ db' = [db EXCEPT !.file[i].hash = truncated(@)]
    /\ UNCHANGED <<fs, scans, results, scanned>>
    /\ UNCHANGED <<server_vars, extract_vars, get_db_vars, classify_vars>>

NextCorrupt ==
    \/ \E p \in Paths : FsWrite(p, "c1")
    \/ \E p \in Paths : FsRemove(p)
    \/ \E i \in 1..Cardinality(Paths) : CorruptId(i)
    \/ \E i \in 1..Cardinality(Paths) : CorruptHash(i)
    \/ \E audio_files \in orders(get_audio_files(fs)) : Scan(audio_files)

\* Scans of a catalog in which rows of the file table are damaged between
\* two scans.
SpecCorrupt == Init /\ [][NextCorrupt]_vars

\* The bytes the user writes in a collection that has files no scan can
\* catalog.
FailingContents == {"c1"} \cup Undecodable

NextFailing ==
    \/ \E p \in Paths, c \in FailingContents : FsWrite(p, c)
    \/ \E p \in Paths : FsRemove(p)
    \/ \E p, q \in Paths : FsMove(p, q)
    \/ \E p \in Paths : FsProtect(p)
    \/ \E audio_files \in orders(get_audio_files(fs)) : Scan(audio_files)

\* Scans of a collection with files that cannot be read or decoded.
SpecFailing == Init /\ [][NextFailing]_vars

\* Scans that commit and scans whose commit fails.
SpecFail == Init /\ [][NextFail]_vars

NextRace ==
    \/ Next
    \/ \E audio_files \in orders(get_audio_files(fs)) :
       \E k \in 1..(Len(audio_files) - 1), p \in Paths :
          ScanWhileRemoving(audio_files, k, p)

\* Scans on a quiet directory and scans the user's removals race with.
SpecRace == Init /\ [][NextRace]_vars

(***************************************************************************)
(* The state machine of the query server: main, and for each request the   *)
(* handler `query`, its blocking task and its client.                      *)
(***************************************************************************)

\* A catalog that is new and a collection of one file, before main starts.
InitServe ==
    /\ fs = [p \in Paths |-> IF p = "A/1.flac" THEN "c1" ELSE Absent]
    /\ db = [file |-> <<>>, track |-> <<>>, album |-> <<>>, artist |-> <<>>,
             credit |-> <<>>, deletion |-> <<>>]
    /\ scans = 0
    /\ changes = 0
    /\ results = no_results("none")
    /\ scanned = [p \in Paths |-> Absent]
    /\ InitServer
    /\ InitExtractor
    /\ InitGetDb
    /\ InitClassifier

\* main calls scanner::scan(collection_path, &conn).
MainScanBegins ==
    /\ main_pc = "start"
    /\ main_pc' = "scan"
    /\ UNCHANGED <<scan_vars, extract_vars, get_db_vars, classify_vars, writer_vars>>
    /\ UNCHANGED <<mutex, poisoned, request, task, buf, written, ready, chan,
                   response, client>>

\* The scan returns Ok and main calls server::serve(conn), which moves the
\* connection into the Mutex of AppState and binds the listener.
MainScanEnds(audio_files) ==
    /\ main_pc = "scan"
    /\ ScanRuns(audio_files)
    /\ main_pc' = "serve"
    /\ UNCHANGED <<mutex, poisoned, request, task, buf, written, ready, chan,
                   response, client>>
    /\ UNCHANGED <<extract_vars, get_db_vars, classify_vars, writer_vars>>

\* main is run with --no-scan and calls server::serve(conn) at once.
MainNoScan ==
    /\ main_pc = "start"
    /\ main_pc' = "serve"
    /\ UNCHANGED <<scan_vars, extract_vars, get_db_vars, classify_vars, writer_vars>>
    /\ UNCHANGED <<mutex, poisoned, request, task, buf, written, ready, chan,
                   response, client>>

\* A client posts `body` to /query: the handler makes the two channels,
\* spawns the blocking task and awaits ready_rx.
Request(r, body) ==
    /\ main_pc = "serve"
    /\ request[r] = <<>>
    /\ IF r = 1 THEN TRUE ELSE request[r - 1] # <<>>
    /\ request' = [request EXCEPT ![r] = <<body>>]
    /\ task' = [task EXCEPT ![r] = "lock"]
    /\ client' = [client EXCEPT ![r] = "waiting"]
    /\ UNCHANGED <<scan_vars, extract_vars, get_db_vars, classify_vars, writer_vars>>
    /\ UNCHANGED <<main_pc, mutex, poisoned, buf, written, ready, chan, response>>

\* A lock that any task takes at once.
lock_is_free_always == TRUE

\* No task holds the guard of state.db.
lock_is_free == mutex = 0

\* A lock that takes the connection out of a poisoned mutex and goes on.
Lock_recovering(r) ==
    /\ task[r] = "lock"
    /\ lock_is_free
    /\ task' = [task EXCEPT ![r] = "prepare"]
    /\ mutex' = r
    /\ UNCHANGED ready
    /\ UNCHANGED <<scan_vars, extract_vars, get_db_vars, classify_vars, writer_vars>>
    /\ UNCHANGED <<main_pc, poisoned, request, buf, written, chan, response, client>>

\* state.db.lock().unwrap(): the task takes the mutex when it is free; when
\* the mutex is poisoned unwrap panics, and the panic drops ready_tx and tx.
Lock(r) ==
    /\ task[r] = "lock"
    /\ lock_is_free
    /\ IF poisoned
       THEN /\ task' = [task EXCEPT ![r] = "done"]
            /\ ready' = [ready EXCEPT ![r].value = "dropped"]
            /\ UNCHANGED mutex
       ELSE /\ task' = [task EXCEPT ![r] = "prepare"]
            /\ mutex' = r
            /\ UNCHANGED ready
    /\ UNCHANGED <<scan_vars, extract_vars, get_db_vars, classify_vars, writer_vars>>
    /\ UNCHANGED <<main_pc, poisoned, request, buf, written, chan, response, client>>

\* conn.prepare(&body): on Err the task sends the error through ready_tx and
\* returns, which drops the guard and tx.
Prepare(r) ==
    /\ task[r] = "prepare"
    /\ IF prepare(request[r][1]) = "Err"
       THEN /\ ready' = [ready EXCEPT ![r] = [sends |-> @.sends + 1, value |-> "err"]]
            /\ task' = [task EXCEPT ![r] = "done"]
            /\ mutex' = 0
       ELSE /\ task' = [task EXCEPT ![r] = "query_arrow"]
            /\ UNCHANGED <<ready, mutex>>
    /\ UNCHANGED <<scan_vars, extract_vars, get_db_vars, classify_vars, writer_vars>>
    /\ UNCHANGED <<main_pc, poisoned, request, buf, written, chan, response, client>>

\* stmt.query_arrow([]): on Err the task sends the error and returns; a panic
\* unwinds the task, which poisons the mutex and drops ready_tx unsent.
Execute(r) ==
    /\ task[r] = "query_arrow"
    /\ CASE query_arrow(request[r][1]) = "Err" ->
                /\ ready' = [ready EXCEPT ![r] = [sends |-> @.sends + 1, value |-> "err"]]
                /\ task' = [task EXCEPT ![r] = "done"]
                /\ mutex' = 0
                /\ UNCHANGED poisoned
         [] query_arrow(request[r][1]) = "panic" ->
                /\ ready' = [ready EXCEPT ![r].value = "dropped"]
                /\ task' = [task EXCEPT ![r] = "done"]
                /\ mutex' = 0
                /\ poisoned' = TRUE
         [] OTHER ->
                /\ task' = [task EXCEPT ![r] = "ready_tx"]
                /\ UNCHANGED <<ready, mutex, poisoned>>
    /\ UNCHANGED <<scan_vars, extract_vars, get_db_vars, classify_vars, writer_vars>>
    /\ UNCHANGED <<main_pc, request, buf, written, chan, response, client>>

\* let _ = ready_tx.send(Ok(()))
SendReady(r) ==
    /\ task[r] = "ready_tx"
    /\ ready' = [ready EXCEPT ![r] = [sends |-> @.sends + 1, value |-> "ok"]]
    /\ task' = [task EXCEPT ![r] = "try_new"]
    /\ UNCHANGED <<scan_vars, extract_vars, get_db_vars, classify_vars, writer_vars>>
    /\ UNCHANGED <<main_pc, mutex, poisoned, request, buf, written, chan, response,
                   client>>

\* StreamWriter::try_new(writer, &schema) writes the schema message into the
\* ChannelWriter and flushes it.
TryNew(r) ==
    /\ task[r] = "try_new"
    /\ buf' = [buf EXCEPT ![r] = <<schema_chunk>>]
    /\ task' = [task EXCEPT ![r] = "send"]
    /\ UNCHANGED <<scan_vars, extract_vars, get_db_vars, classify_vars, writer_vars>>
    /\ UNCHANGED <<main_pc, mutex, poisoned, request, written, ready, chan, response,
                   client>>

\* A channel without a bound.
has_permit_always(r) == TRUE

\* A channel that never has room.
has_permit_never(r) == FALSE

\* The channel of request r has room for a chunk.
has_permit(r) == Len(chan[r]) < ChannelCapacity

\* A receiver that outlives its client.
receiver_kept(r) == FALSE

\* The receiver of the channel of request r is dropped: blocking_send
\* returns an error.
receiver_dropped(r) == client[r] = "gone"

\* ChannelWriter::send_buffered: blocking_send of the buffered chunk.  It
\* returns an error when the receiver is dropped (the client is gone), and
\* the task returns; it waits while the channel has no room.  After the
\* end-of-stream marker the task returns as well.
Send(r) ==
    /\ task[r] = "send"
    /\ \/ /\ receiver_dropped(r)
          /\ buf' = [buf EXCEPT ![r] = <<>>]
          /\ task' = [task EXCEPT ![r] = "done"]
          /\ mutex' = 0
          /\ UNCHANGED <<chan, written>>
       \/ /\ ~receiver_dropped(r)
          /\ has_permit(r)
          /\ chan' = [chan EXCEPT ![r] = Append(@, buf[r][1])]
          /\ buf' = [buf EXCEPT ![r] = <<>>]
          /\ IF buf[r][1].msg = "eos"
             THEN /\ task' = [task EXCEPT ![r] = "done"]
                  /\ mutex' = 0
                  /\ UNCHANGED written
             ELSE /\ task' = [task EXCEPT ![r] = "write"]
                  /\ written' = [written EXCEPT ![r] =
                                    IF buf[r][1].msg = "batch" THEN @ + 1 ELSE @]
                  /\ UNCHANGED mutex
    /\ UNCHANGED <<scan_vars, extract_vars, get_db_vars, classify_vars, writer_vars>>
    /\ UNCHANGED <<main_pc, poisoned, request, ready, response, client>>

\* A loop that leaves at a failed write and still finishes the stream.
Write_finishing(r) ==
    /\ task[r] = "write"
    /\ IF \/ written[r] = request[r][1].batches
          \/ written[r] + 1 = request[r][1].bad_batch
       THEN /\ buf' = [buf EXCEPT ![r] = <<eos_chunk>>]
            /\ task' = [task EXCEPT ![r] = "send"]
            /\ UNCHANGED mutex
       ELSE /\ buf' = [buf EXCEPT ![r] = <<batch_chunk(written[r] + 1)>>]
            /\ task' = [task EXCEPT ![r] = "send"]
            /\ UNCHANGED mutex
    /\ UNCHANGED <<scan_vars, extract_vars, get_db_vars, classify_vars, writer_vars>>
    /\ UNCHANGED <<main_pc, poisoned, request, written, ready, chan, response, client>>

\* for batch in batches { ipc_writer.write(&batch) } and ipc_writer.finish():
\* the next batch is written into the ChannelWriter, or the end-of-stream
\* marker once every batch is written; when write returns an error of its
\* own the task returns.
Write(r) ==
    /\ task[r] = "write"
    /\ IF written[r] = request[r][1].batches
       THEN /\ buf' = [buf EXCEPT ![r] = <<eos_chunk>>]
            /\ task' = [task EXCEPT ![r] = "send"]
            /\ UNCHANGED mutex
       ELSE IF written[r] + 1 = request[r][1].bad_batch
       THEN /\ task' = [task EXCEPT ![r] = "done"]
            /\ mutex' = 0
            /\ UNCHANGED buf
       ELSE /\ buf' = [buf EXCEPT ![r] = <<batch_chunk(written[r] + 1)>>]
            /\ task' = [task EXCEPT ![r] = "send"]
            /\ UNCHANGED mutex
    /\ UNCHANGED <<scan_vars, extract_vars, get_db_vars, classify_vars, writer_vars>>
    /\ UNCHANGED <<main_pc, poisoned, request, written, ready, chan, response, client>>

\* match ready_rx.await: the handler returns the response head, and with it
\* the whole body unless the body is the stream.
Respond(r) ==
    /\ client[r] = "waiting"
    /\ ready[r].value # "none"
    /\ CASE ready[r].value = "ok" ->
                /\ response' = [response EXCEPT ![r].status = OK]
                /\ client' = [client EXCEPT ![r] = "reading"]
         [] ready[r].value = "err" ->
                /\ response' = [response EXCEPT
                      ![r] = [status |-> BAD_REQUEST,
                              body |-> << [msg |-> "error", no |-> 0] >>]]
                /\ client' = [client EXCEPT ![r] = "done"]
         [] ready[r].value = "dropped" ->
                /\ response' = [response EXCEPT
                      ![r] = [status |-> INTERNAL_SERVER_ERROR,
                              body |-> << [msg |-> "panicked", no |-> 0] >>]]
                /\ client' = [client EXCEPT ![r] = "done"]
    /\ UNCHANGED <<scan_vars, extract_vars, get_db_vars, classify_vars, writer_vars>>
    /\ UNCHANGED <<main_pc, mutex, poisoned, request, task, buf, written, ready, chan>>

\* The body stream hands the client the next chunk of the channel.
Deliver(r) ==
    /\ client[r] = "reading"
    /\ chan[r] # <<>>
    /\ response' = [response EXCEPT ![r].body = Append(@, Head(chan[r]))]
    /\ chan' = [chan EXCEPT ![r] = Tail(@)]
    /\ UNCHANGED <<scan_vars, extract_vars, get_db_vars, classify_vars, writer_vars>>
    /\ UNCHANGED <<main_pc, mutex, poisoned, request, task, buf, written, ready, client>>

\* The channel is empty and tx is dropped: the body ends.
EndOfBody(r) ==
    /\ client[r] = "reading"
    /\ chan[r] = <<>>
    /\ task[r] = "done"
    /\ client' = [client EXCEPT ![r] = "done"]
    /\ UNCHANGED <<scan_vars, extract_vars, get_db_vars, classify_vars, writer_vars>>
    /\ UNCHANGED <<main_pc, mutex, poisoned, request, task, buf, written, ready, chan,
                   response>>

\* The client closes the connection: the handler's future, or the body it
\* returned, is dropped, and with it rx and the chunks not yet received.
Disconnect(r) ==
    /\ client[r] \in {"waiting", "reading"}
    /\ client' = [client EXCEPT ![r] = "gone"]
    /\ chan' = [chan EXCEPT ![r] = <<>>]
    /\ UNCHANGED <<scan_vars, extract_vars, get_db_vars, classify_vars, writer_vars>>
    /\ UNCHANGED <<main_pc, mutex, poisoned, request, task, buf, written, ready,
                   response>>

\* A step of the blocking task of request r.
TaskStep(r) ==
    \/ Lock(r)
    \/ Prepare(r)
    \/ Execute(r)
    \/ SendReady(r)
    \/ TryNew(r)
    \/ Send(r)
    \/ Write(r)

NextServe ==
    \/ MainScanBegins
    \/ \E audio_files \in orders(get_audio_files(fs)) : MainScanEnds(audio_files)
    \/ MainNoScan
    \/ \E r \in Requests, body \in Bodies : Request(r, body)
    \/ \E r \in Requests : TaskStep(r)
    \/ \E r \in Requests : Respond(r)
    \/ \E r \in Requests : Deliver(r)
    \/ \E r \in Requests : EndOfBody(r)
    \/ \E r \in Requests : Disconnect(r)

\* One process: main, then the requests the server takes.
SpecServe == InitServe /\ [][NextServe]_vars

\* The blocking tasks are threads of the blocking pool: each runs whenever it
\* can take a step.
SpecServeFair == SpecServe /\ \A r \in Requests : WF_vars(TaskStep(r))

\* Besides, the runtime polls each handler whose ready_rx has resolved, and
\* each client that has not gone away takes the chunks its body stream has.
SpecServeLive ==
    /\ SpecServe
    /\ \A r \in Requests :
          WF_vars(TaskStep(r)) /\ WF_vars(Respond(r)) /\ WF_vars(Deliver(r))

(***************************************************************************)
(* The ChannelWriter of one response, under any caller (server.rs 25-57).  *)
(***************************************************************************)

\* The bytes a caller writes in all.
MaxBytes == 4

\* The longest slice a caller passes to write.
MaxSlice == 2

\* A send_buffered that sends the buffer also when it is empty.
send_buffered_always(bytes, channel, receiver) ==
    IF receiver = "dropped"
    THEN [buf |-> <<>>, tx |-> channel, result |-> "Err"]
    ELSE [buf |-> <<>>, tx |-> Append(channel, bytes), result |-> "Ok"]

\* ChannelWriter::send_buffered: nothing when the buffer is empty; else the
\* buffer is taken and sent as one chunk, which fails when the receiver is
\* dropped.
send_buffered(bytes, channel, receiver) ==
    IF bytes = <<>>
    THEN [buf |-> bytes, tx |-> channel, result |-> "Ok"]
    ELSE IF receiver = "dropped"
    THEN [buf |-> <<>>, tx |-> channel, result |-> "Err"]
    ELSE [buf |-> <<>>, tx |-> Append(channel, bytes), result |-> "Ok"]

\* blocking_send waits: there is a chunk to send, a receiver, and no room.
blocking_send_waits(bytes, channel, receiver) ==
    /\ bytes # <<>>
    /\ receiver = "open"
    /\ Len(channel) >= ChannelCapacity

\* The variables of the requests, which the writer on its own leaves alone.
query_vars ==
    <<main_pc, mutex, poisoned, request, task, buf, written, ready, chan,
      response, client>>

\* Write::write(data) with a slice of n bytes: the bytes are appended to buf
\* and Ok(n) is returned.
WriterWrite(n) ==
    /\ writer_pc = "open"
    /\ bytes_written + n <= MaxBytes
    /\ writer_buf' = writer_buf \o [i \in 1..n |-> bytes_written + i]
    /\ bytes_written' = bytes_written + n
    /\ UNCHANGED <<writer_pc, send_failed, writer_tx, rx, body_stream>>
    /\ UNCHANGED <<scan_vars, extract_vars, get_db_vars, classify_vars, query_vars>>

\* Write::flush(): send_buffered, whose result goes to the caller.
WriterFlush ==
    /\ writer_pc = "open"
    /\ ~blocking_send_waits(writer_buf, writer_tx, rx)
    /\ \E sent \in {send_buffered(writer_buf, writer_tx, rx)} :
          /\ writer_buf' = sent.buf
          /\ writer_tx' = sent.tx
          /\ send_failed' = (send_failed \/ sent.result = "Err")
    /\ UNCHANGED <<writer_pc, bytes_written, rx, body_stream>>
    /\ UNCHANGED <<scan_vars, extract_vars, get_db_vars, classify_vars, query_vars>>

\* A drop that sends nothing.
WriterDrop_discarding ==
    /\ writer_pc = "open"
    /\ writer_pc' = "dropped"
    /\ writer_buf' = <<>>
    /\ UNCHANGED <<bytes_written, send_failed, writer_tx, rx, body_stream>>
    /\ UNCHANGED <<scan_vars, extract_vars, get_db_vars, classify_vars, query_vars>>

\* Drop::drop: let _ = self.send_buffered(); then buf and tx are dropped.
WriterDrop ==
    /\ writer_pc = "open"
    /\ ~blocking_send_waits(writer_buf, writer_tx, rx)
    /\ \E sent \in {send_buffered(writer_buf, writer_tx, rx)} :
          /\ writer_buf' = sent.buf
          /\ writer_tx' = sent.tx
          /\ send_failed' = (send_failed \/ sent.result = "Err")
    /\ writer_pc' = "dropped"
    /\ UNCHANGED <<bytes_written, rx, body_stream>>
    /\ UNCHANGED <<scan_vars, extract_vars, get_db_vars, classify_vars, query_vars>>

\* The body stream polls the receiver and gets the next chunk.
BodyReceives ==
    /\ rx = "open"
    /\ writer_tx # <<>>
    /\ body_stream' = Append(body_stream, Head(writer_tx))
    /\ writer_tx' = Tail(writer_tx)
    /\ UNCHANGED <<writer_pc, writer_buf, bytes_written, send_failed, rx>>
    /\ UNCHANGED <<scan_vars, extract_vars, get_db_vars, classify_vars, query_vars>>

\* The client goes away: the body, and with it the receiver and the chunks
\* it holds, is dropped.
ReceiverDrops ==
    /\ rx = "open"
    /\ rx' = "dropped"
    /\ writer_tx' = <<>>
    /\ UNCHANGED <<writer_pc, writer_buf, bytes_written, send_failed, body_stream>>
    /\ UNCHANGED <<scan_vars, extract_vars, get_db_vars, classify_vars, query_vars>>

NextWriter ==
    \/ \E n \in 0..MaxSlice : WriterWrite(n)
    \/ WriterFlush
    \/ WriterDrop
    \/ BodyReceives
    \/ ReceiverDrops

\* One ChannelWriter whose caller writes, flushes and drops as it likes.
SpecWriter == Init /\ [][NextWriter]_vars

(***************************************************************************)
(* Process starts on one catalog file: main calls db::get_db.              *)
(***************************************************************************)

\* main calls get_db, which opens the file.
Startup ==
    /\ get_db_pc = "down"
    /\ startups < MaxStartups
    /\ startups' = startups + 1
    /\ get_db_pc' = "init_db_version_metadata"
    /\ UNCHANGED <<store, tx, pending_migrations>>
    /\ UNCHANGED <<scan_vars, server_vars, extract_vars, classify_vars>>

\* init_db_version_metadata: execute_batch runs the statements one by one
\* outside a transaction; statement fail_at returns the error (0: none).
InitDbVersionMetadata(fail_at) ==
    /\ get_db_pc = "init_db_version_metadata"
    /\ IF fail_at = 0
       THEN /\ store' = init_statements(NumInitStatements, store)
            /\ get_db_pc' = "get_current_version"
       ELSE /\ store' = init_statements(fail_at - 1, store)
            /\ get_db_pc' = "failed"
    /\ UNCHANGED <<tx, pending_migrations, startups>>
    /\ UNCHANGED <<scan_vars, server_vars, extract_vars, classify_vars>>

\* get_current_version and the filter of MIGRATIONS by it.
GetCurrentVersion ==
    /\ get_db_pc = "get_current_version"
    /\ pending_migrations' = SelectSeq(MIGRATIONS, LAMBDA version : version > store.version[1])
    /\ get_db_pc' = "for"
    /\ UNCHANGED <<store, tx, startups>>
    /\ UNCHANGED <<scan_vars, server_vars, extract_vars, classify_vars>>

\* for migration in pending_migrations: run_migration begins with
\* conn.transaction(); after the last migration get_db returns Ok(conn).
Transaction ==
    /\ get_db_pc = "for"
    /\ IF pending_migrations = <<>>
       THEN /\ get_db_pc' = "up"
            /\ UNCHANGED tx
       ELSE /\ get_db_pc' = "execute_batch"
            /\ tx' = <<store>>
    /\ UNCHANGED <<store, pending_migrations, startups>>
    /\ UNCHANGED <<scan_vars, server_vars, extract_vars, classify_vars>>

\* tx.execute_batch(migration.sql)
ExecuteBatch ==
    /\ get_db_pc = "execute_batch"
    /\ tx' = << [tx[1] EXCEPT !.schema = Append(@, Head(pending_migrations))] >>
    /\ get_db_pc' = "execute"
    /\ UNCHANGED <<store, pending_migrations, startups>>
    /\ UNCHANGED <<scan_vars, server_vars, extract_vars, classify_vars>>

\* tx.execute("UPDATE meta.version SET value = ?", [migration.version])
Execute_Update ==
    /\ get_db_pc = "execute"
    /\ tx' = << [tx[1] EXCEPT !.version = << Head(pending_migrations) >>] >>
    /\ get_db_pc' = "commit"
    /\ UNCHANGED <<store, pending_migrations, startups>>
    /\ UNCHANGED <<scan_vars, server_vars, extract_vars, classify_vars>>

\* tx.commit(), and the loop goes on to the next migration.
Commit ==
    /\ get_db_pc = "commit"
    /\ store' = tx[1]
    /\ tx' = <<>>
    /\ pending_migrations' = Tail(pending_migrations)
    /\ get_db_pc' = "for"
    /\ UNCHANGED startups
    /\ UNCHANGED <<scan_vars, server_vars, extract_vars, classify_vars>>

\* A statement of run_migration returns an error: `?` returns it from
\* run_migration and from get_db, which drops the transaction.
MigrationFails ==
    /\ get_db_pc \in {"execute_batch", "execute", "commit"}
    /\ store' = drop_transaction(store, tx[1])
    /\ tx' = <<>>
    /\ get_db_pc' = "failed"
    /\ UNCHANGED <<pending_migrations, startups>>
    /\ UNCHANGED <<scan_vars, server_vars, extract_vars, classify_vars>>

\* The process ends: main returns the error of get_db, the server is shut
\* down, or the process is killed wherever it is; an open transaction is
\* rolled back.
Exit ==
    /\ get_db_pc # "down"
    /\ store' = IF tx = <<>> THEN store ELSE drop_transaction(store, tx[1])
    /\ tx' = <<>>
    /\ pending_migrations' = <<>>
    /\ get_db_pc' = "down"
    /\ UNCHANGED startups
    /\ UNCHANGED <<scan_vars, server_vars, extract_vars, classify_vars>>

NextGetDb ==
    \/ Startup
    \/ \E fail_at \in 0..NumInitStatements : InitDbVersionMetadata(fail_at)
    \/ GetCurrentVersion
    \/ Transaction
    \/ ExecuteBatch
    \/ Execute_Update
    \/ Commit
    \/ MigrationFails
    \/ Exit

\* Starts of the process on one catalog file, with statements that fail.
SpecGetDb == Init /\ [][NextGetDb]_vars

(***************************************************************************)
(* The extractor run on its own, at any time.                              *)
(***************************************************************************)

\* A new year begins.
ClockTicks ==
    /\ now_year < current_year + MaxClockYears
    /\ now_year' = now_year + 1
    /\ UNCHANGED <<returned, file_ext, is_audio, file_format>>
    /\ UNCHANGED <<scan_vars, server_vars, get_db_vars, classify_vars>>

\* get_track_metadata on a readable file of these bytes: Some((metadata,
\* duration)), the year of the metadata parsed against the clock.
Extract(file) ==
    /\ returned' = returned \cup
           { [file |-> file,
              metadata |-> assemble_tags_into_metadata_at(file.tags, now_year),
              duration |-> file.duration] }
    /\ UNCHANGED <<now_year, file_ext, is_audio, file_format>>
    /\ UNCHANGED <<scan_vars, server_vars, get_db_vars, classify_vars>>

NextExtract ==
    \/ ClockTicks
    \/ \E file \in ExtractedFiles : Extract(file)

SpecExtract == Init /\ [][NextExtract]_vars

(***************************************************************************)
(* The format of a file, from its extension (scanner/metadata.rs).         *)
(***************************************************************************)

\* u8::to_ascii_uppercase of a character.
char_to_ascii_uppercase(ch) ==
    CASE ch = "a" -> "A" [] ch = "b" -> "B" [] ch = "c" -> "C" [] ch = "d" -> "D" [] ch = "e" -> "E"
      [] ch = "f" -> "F" [] ch = "g" -> "G" [] ch = "h" -> "H" [] ch = "i" -> "I" [] ch = "j" -> "J"
      [] ch = "k" -> "K" [] ch = "l" -> "L" [] ch = "m" -> "M" [] ch = "n" -> "N" [] ch = "o" -> "O"
      [] ch = "p" -> "P" [] ch = "q" -> "Q" [] ch = "r" -> "R" [] ch = "s" -> "S" [] ch = "t" -> "T"
      [] ch = "u" -> "U" [] ch = "v" -> "V" [] ch = "w" -> "W" [] ch = "x" -> "X" [] ch = "y" -> "Y"
      [] ch = "z" -> "Z"
      [] OTHER -> ch

\* The ways of writing an extension in upper and lower case.
case_variants(ext) ==
    {e \in [DOMAIN ext -> {ext[i] : i \in DOMAIN ext}
                            \cup {char_to_ascii_uppercase(ext[i]) : i \in DOMAIN ext}] :
        \A i \in DOMAIN ext : e[i] \in {ext[i], char_to_ascii_uppercase(ext[i])}}

\* The extensions the files of a collection have: those of the audio files
\* and some others, in every mix of upper and lower case.
Extensions ==
    UNION {case_variants(ext) :
             ext \in AUDIO_EXTENSIONS
                     \cup {<<"m", "p", "4">>, <<"t", "x", "t">>, <<"j", "p", "g">>,
                           <<"a", "i", "f", "c">>, <<"m", "4", "b">>}}

\* The walk meets a file of extension `ext` and classify_as_new asks for its
\* format.
Format(ext) ==
    /\ file_ext' = ext
    /\ is_audio' = is_audio_extension(ext)
    /\ file_format' = extension_to_format(ext)
    /\ UNCHANGED <<now_year, returned>>
    /\ UNCHANGED <<scan_vars, server_vars, get_db_vars, classify_vars>>

NextFormat == \E ext \in Extensions : Format(collect(ext))

SpecFormat == Init /\ [][NextFormat]_vars

(***************************************************************************)
(* classify_file of scanner/classify.rs on one file.                       *)
(***************************************************************************)

\* A file is at TimedPath, and the catalog holds one live row that an
\* earlier scan recorded for a file at that path or at a path that is gone.
InitClassify ==
    /\ fs = [p \in Paths |-> Absent]
    /\ db = [file |-> <<>>, track |-> <<>>, album |-> <<>>, artist |-> <<>>,
             credit |-> <<>>, deletion |-> <<>>]
    /\ scans = 0
    /\ changes = 0
    /\ results = no_results("none")
    /\ scanned = fs
    /\ InitServer
    /\ InitExtractor
    /\ InitGetDb
    /\ \E c \in TimedContents, m \in Mtimes :
          on_disk = (TimedPath :> << [content |-> c, mtime |-> m] >>)
                    @@ (GonePath :> <<>>)
    /\ \E c \in TimedContents, m \in Mtimes, p \in {TimedPath, GonePath} :
          cataloged = << [id |-> 1, path |-> p, hash |-> blake3(c),
                          size |-> content_len(c), mtime |-> m] >>
    /\ classification = <<>>
    /\ collected = aggregate(<<>>)
    /\ reconciled = <<>>

\* The user sets the modification time of the file (touch).
Touch(m) ==
    /\ on_disk[TimedPath][1].mtime # m
    /\ on_disk' = [on_disk EXCEPT ![TimedPath] =
                      << [content |-> @[1].content, mtime |-> m] >>]
    /\ classification' = <<>>
    /\ UNCHANGED <<cataloged, collected, reconciled>>
    /\ UNCHANGED <<scan_vars, server_vars, extract_vars, get_db_vars>>

\* The closure of classify_all on the file.
ClassifyFile ==
    /\ classification = <<>>
    /\ classification' =
          classify_file_by_mtime(TimedPath,
                                 existing_files_of(cataloged, <<>>, <<>>),
                                 on_disk)
    /\ UNCHANGED <<on_disk, cataloged, collected, reconciled>>
    /\ UNCHANGED <<scan_vars, server_vars, extract_vars, get_db_vars>>

NextClassify ==
    \/ \E m \in Mtimes : Touch(m)
    \/ ClassifyFile

SpecClassify == InitClassify /\ [][NextClassify]_vars

(***************************************************************************)
(* resolve_conflicts (scanner/mod.rs) on the lists of one scan.            *)
(***************************************************************************)

\* The id of the live row by_path holds for a path.
row_id(p) ==
    CASE p = "A/1.flac" -> 1 [] p = "A/disc 1/2.flac" -> 2 [] p = "B/3.M4A" -> 3

\* The bytes a file with a live row had when classify_file read it: audio
\* with other bytes than the row's, or bytes the probe rejects.
ModifiedContents == {"c2", "c0"}

\* What classify_file can have returned for the file at `p` when every path
\* has a live row: None, Skipped, Moved with the id of the row of a path at
\* which it saw no file, or Modified with the id of the row of `p`.
Classifications(p) ==
    { <<>>, << [kind |-> "Skipped", path |-> p] >> }
    \cup { << [kind |-> "Moved", id |-> row_id(q), path |-> p] >> :
             q \in Paths \ {p} }
    \cup { << [kind |-> "Modified",
               id |-> row_id(p),
               path |-> p,
               hash |-> blake3(c),
               size |-> content_len(c),
               duration |-> get_duration(c)] >> : c \in ModifiedContents }

\* The lists of a scan during which the user changed the directory, and the
\* directory as resolve_conflicts finds it: a file classified Modified is
\* still there, or gone.
InitResolve ==
    /\ \E walk \in orders(Paths) :
       \E found \in [Paths -> UNION {Classifications(p) : p \in Paths}] :
          /\ \A p \in Paths : found[p] \in Classifications(p)
          /\ collected = aggregate(flatten(collect(
                            [i \in DOMAIN walk |-> found[walk[i]]])))
          /\ fs \in {f \in [Paths -> ModifiedContents \cup {Absent}] :
                       \A p \in Paths :
                          IF Len(found[p]) = 1 /\ found[p][1].kind = "Modified"
                          THEN f[p] = Absent \/ blake3(f[p]) = found[p][1].hash
                          ELSE f[p] = Absent}
    /\ db = [file |-> <<>>, track |-> <<>>, album |-> <<>>, artist |-> <<>>,
             credit |-> <<>>, deletion |-> <<>>]
    /\ scans = 0
    /\ changes = 0
    /\ results = no_results("none")
    /\ scanned = fs
    /\ InitServer
    /\ InitExtractor
    /\ InitGetDb
    /\ on_disk = [p \in {TimedPath, GonePath} |-> <<>>]
    /\ cataloged = <<>>
    /\ classification = <<>>
    /\ reconciled = <<>>

\* Step 5 of scan.
ResolveConflicts ==
    /\ reconciled = <<>>
    /\ reconciled' = << resolve_conflicts(collected, fs) >>
    /\ UNCHANGED <<on_disk, cataloged, classification, collected>>
    /\ UNCHANGED <<scan_vars, server_vars, extract_vars, get_db_vars>>

NextResolve == ResolveConflicts

SpecResolve == InitResolve /\ [][NextResolve]_vars

(***************************************************************************)
(* Properties of the scan.                                                 *)
(***************************************************************************)

\* The file rows without a tombstone, and those with one.
live(t) == {t.file[i] : i \in {j \in DOMAIN t.file : t.file[j].deletion = NULL}}

tombstoned(t) == {t.file[i] : i \in {j \in DOMAIN t.file : t.file[j].deletion # NULL}}

\* A step in which a scan ran and committed.
Committed == scans' = scans + 1 /\ results'.status = "ok"

\* The ids a scan reported as moved, and as modified.
moved_ids_of(r) == {r.moved[i].id : i \in DOMAIN r.moved}

modified_ids_of(r) == {r.modified[i].id : i \in DOMAIN r.modified}

\* C1: no id is both in the moved list and in the deletion list of one scan,
\* and after the commit the moved row is live (deletion NULL) with the new
\* path.
MovedIsNotDeleted ==
    \A i \in DOMAIN results.moved :
        /\ results.moved[i].id \notin results.deleted
        /\ \E r \in live(db) :
              r.id = results.moved[i].id /\ r.path = results.moved[i].path

\* C2: across successful scans a file that matches a live row keeps that
\* row's id: after a move the id is live at the new path, after an in-place
\* modification the id is live at the same path, and a file gets a new id only
\* when its path matches no live row and its hash matches no live row whose
\* path is gone from the directory.
IdIsStable ==
    [][Committed =>
        /\ \A i \in DOMAIN results'.moved :
              \E r \in live(db), r2 \in live(db') :
                 /\ r.id = results'.moved[i].id
                 /\ r2.id = r.id
                 /\ r2.path = results'.moved[i].path
        /\ \A i \in DOMAIN results'.modified :
              \E r \in live(db), r2 \in live(db') :
                 /\ r.id = results'.modified[i].id
                 /\ r2.id = r.id
                 /\ r.path = results'.modified[i].path
                 /\ r2.path = r.path
        /\ \A i \in DOMAIN results'.new :
              \A r \in live(db) :
                 /\ r.path # results'.new[i]
                 /\ ~(r.hash = blake3(fs[results'.new[i]]) /\ fs[r.path] = Absent)
      ]_vars

\* C3: a scan of a tree that has not changed since the previous successful
\* scan reports no new, moved, modified or deleted file, skips as many files
\* as the catalog has live rows, and its commit adds or changes no row.
RescanChangesNothing ==
    [][(Committed /\ scans > 0 /\ fs = scanned) =>
        /\ results'.new = <<>>
        /\ results'.moved = <<>>
        /\ results'.modified = <<>>
        /\ results'.deleted = {}
        /\ Len(results'.skipped) = Cardinality(live(db))
        /\ db' = db
      ]_vars

\* C4: after every successful commit no two file rows with deletion NULL
\* have the same path.
LivePathsAreUnique ==
    \A i, j \in DOMAIN db.file :
        (/\ db.file[i].deletion = NULL
         /\ db.file[j].deletion = NULL
         /\ db.file[i].path = db.file[j].path) => i = j

\* A commit left two live rows, and a tombstoned row that has the path of a
\* live one.
LivePathsAreUniqueWitness ==
    /\ results.status = "ok"
    /\ Cardinality(live(db)) >= 2
    /\ \E r \in live(db), d \in tombstoned(db) : r.path = d.path

\* C5: when a statement of the commit fails the scan returns an error and
\* the tables artist, album, file, track, credit and deletion are as they
\* were before the scan; a scan applies all of its staged changes or none.
FailedCommitChangesNothing ==
    [][scans' = scans + 1 =>
        \/ results'.status = "ok"
        \/ results'.status = "err" /\ db' = db
      ]_vars

\* A scan failed on a catalog that does not hold every file of the
\* directory: the failed commit had rows to insert.
FailedCommitChangesNothingWitness ==
    /\ results.status = "err"
    /\ db.file # <<>>
    /\ \E p \in Paths : fs[p] # Absent /\ \A r \in live(db) : r.path # p

\* The paths of a scan's four lists.
moved_paths_of(r) == {r.moved[i].path : i \in DOMAIN r.moved}

modified_paths_of(r) == {r.modified[i].path : i \in DOMAIN r.modified}

skipped_paths_of(r) == {r.skipped[i] : i \in DOMAIN r.skipped}

new_paths_of(r) == {r.new[i] : i \in DOMAIN r.new}

\* C6: after conflict resolution the lists skipped, moved, modified and new
\* are pairwise disjoint: no discovered path appears in two lists (nor twice
\* in one), and no file id is in both moved and modified.
ListsAreDisjoint ==
    /\ skipped_paths_of(results) \cap moved_paths_of(results) = {}
    /\ skipped_paths_of(results) \cap modified_paths_of(results) = {}
    /\ skipped_paths_of(results) \cap new_paths_of(results) = {}
    /\ moved_paths_of(results) \cap modified_paths_of(results) = {}
    /\ moved_paths_of(results) \cap new_paths_of(results) = {}
    /\ modified_paths_of(results) \cap new_paths_of(results) = {}
    /\ Cardinality(skipped_paths_of(results)) + Cardinality(moved_paths_of(results))
         + Cardinality(modified_paths_of(results)) + Cardinality(new_paths_of(results))
       = Len(results.skipped) + Len(results.moved)
         + Len(results.modified) + Len(results.new)
    /\ moved_ids_of(results) \cap modified_ids_of(results) = {}

\* A scan in which resolve_conflicts found an id both moved and modified.
ListsAreDisjointWitness ==
    /\ results.status = "ok"
    /\ results.conflicting # <<>>
    /\ results.moved # <<>>

\* C7: a row with a non-null deletion is matched by no later scan: its id is
\* not reported as moved, modified or deleted again, a skipped path is the
\* path of a live row, no column of the row changes, and a file that has the
\* bytes or the path of tombstoned rows only is cataloged as New with an id
\* no row had.
TombstonedIsNeverMatched ==
    [][Committed =>
        /\ \A i \in DOMAIN db.file :
              db.file[i].deletion # NULL =>
                 /\ db'.file[i] = db.file[i]
                 /\ db.file[i].id \notin moved_ids_of(results')
                 /\ db.file[i].id \notin modified_ids_of(results')
                 /\ db.file[i].id \notin results'.deleted
        /\ \A p \in skipped_paths_of(results') : \E r \in live(db) : r.path = p
        /\ \A p \in Paths :
              (/\ fs[p] # Absent
               /\ \E d \in tombstoned(db) : d.path = p \/ d.hash = blake3(fs[p])
               /\ \A r \in live(db) : r.path # p /\ r.hash # blake3(fs[p]))
              => /\ p \in new_paths_of(results')
                 /\ \E r \in live(db') :
                       /\ r.path = p
                       /\ \A i \in DOMAIN db.file : db.file[i].id # r.id
      ]_vars

\* A file came back after its row was tombstoned: the catalog holds a
\* tombstoned row and a younger live row with the same path and the same hash.
TombstonedIsNeverMatchedWitness ==
    /\ results.status = "ok"
    /\ \E d \in tombstoned(db), r \in live(db) :
          /\ r.path = d.path
          /\ r.hash = d.hash
          /\ r.id # d.id
          /\ r.added > d.added

\* The rows a table had before a step are still its first rows after it.
kept(before, after) ==
    /\ Len(after) >= Len(before)
    /\ SubSeq(after, 1, Len(before)) = before

\* C8: a scan that classifies a file as Modified changes only hash, size and
\* duration of that file row; a scan that classifies a file as Moved changes
\* only the row's path; id, added and deletion of these rows and every track,
\* album, artist and credit row stay as they were.
OnlyTheChangedColumnsAreWritten ==
    [][Committed =>
        /\ \A i \in DOMAIN db.file :
              /\ db.file[i].id \in modified_ids_of(results') =>
                    db'.file[i] = [db.file[i] EXCEPT !.hash = db'.file[i].hash,
                                                     !.size = db'.file[i].size,
                                                     !.duration = db'.file[i].duration]
              /\ db.file[i].id \in moved_ids_of(results') =>
                    db'.file[i] = [db.file[i] EXCEPT !.path = db'.file[i].path]
        /\ kept(db.track, db'.track)
        /\ kept(db.album, db'.album)
        /\ kept(db.artist, db'.artist)
        /\ kept(db.credit, db'.credit)
      ]_vars

\* The artist names in the tags of a content.
artist_names_of(c) ==
    {embedded_tags(c)[i].value :
        i \in {j \in DOMAIN embedded_tags(c) : embedded_tags(c)[j].key = "Artist"}}

\* C9: no two artist rows have the same name: a name already in the catalog
\* keeps its row and id, a name first seen in a scan gets one row even when
\* several new files carry it, and every artist name of every new file is the
\* name of exactly one artist row.
ArtistNamesAreUnique ==
    [][Committed =>
        /\ \A i, j \in DOMAIN db'.artist :
              db'.artist[i].name = db'.artist[j].name => i = j
        /\ kept(db.artist, db'.artist)
        /\ \A p \in new_paths_of(results') :
              \A name \in artist_names_of(fs[p]) :
                 Cardinality({i \in DOMAIN db'.artist : db'.artist[i].name = name}) = 1
      ]_vars

\* Two files cataloged by different scans are credited to one artist row.
ArtistNamesAreUniqueWitness ==
    /\ results.status = "ok"
    /\ \E f1, f2 \in live(db) :
          /\ f1.added < f2.added
          /\ \E i, j \in DOMAIN db.track, k, l \in DOMAIN db.credit :
                /\ db.track[i].file = f1.id
                /\ db.track[j].file = f2.id
                /\ db.credit[k].track = db.track[i].id
                /\ db.credit[l].track = db.track[j].id
                /\ db.credit[k].artist = db.credit[l].artist

\* The values of a sequence, each once, in the order of first appearance.
RECURSIVE first_seen(_, _)
first_seen(values, acc) ==
    IF Len(values) = 0 THEN acc
    ELSE first_seen(Tail(values),
                    IF \E i \in DOMAIN acc : acc[i] = Head(values)
                    THEN acc ELSE Append(acc, Head(values)))

\* The artist tags of a content, in tag order.
artist_tags_of(c) ==
    LET tags == SelectSeq(embedded_tags(c), LAMBDA tag : tag.key = "Artist") IN
    [i \in DOMAIN tags |-> tags[i].value]

\* The credits of the track of the live file row at path p, in row order.
credits_at(t, p) ==
    LET file_ids == {r.id : r \in {x \in live(t) : x.path = p}}
        track_ids == {t.track[i].id : i \in {j \in DOMAIN t.track : t.track[j].file \in file_ids}}
    IN SelectSeq(t.credit, LAMBDA c : c.track \in track_ids)

\* The name of the artist row with an id.
artist_name(t, id) ==
    (CHOOSE a \in {t.artist[i] : i \in DOMAIN t.artist} : a.id = id).name

\* C10: a new file gets one credit per distinct artist name of its tags, in
\* first-seen tag order, with ord = 0, 1, 2, ..; within a track the
\* (track, artist) pairs are unique and the ord values are unique.
CreditsFollowTheTags ==
    [][Committed =>
        /\ \A p \in new_paths_of(results') :
              LET names == first_seen(artist_tags_of(fs[p]), <<>>)
                  credits == credits_at(db', p)
              IN /\ Len(credits) = Len(names)
                 /\ \A j \in DOMAIN credits :
                       /\ credits[j].ord = j - 1
                       /\ artist_name(db', credits[j].artist) = names[j]
        /\ \A k, l \in DOMAIN db'.credit :
              (/\ db'.credit[k].track = db'.credit[l].track
               /\ \/ db'.credit[k].artist = db'.credit[l].artist
                  \/ db'.credit[k].ord = db'.credit[l].ord) => k = l
      ]_vars

\* A file whose tags name one artist twice was cataloged with two credits.
CreditsFollowTheTagsWitness ==
    /\ results.status = "ok"
    /\ \E p \in new_paths_of(results) :
          /\ fs[p] # Absent
          /\ Len(artist_tags_of(fs[p])) > Len(first_seen(artist_tags_of(fs[p]), <<>>))
          /\ Len(credits_at(db, p)) = 2

\* The rows a commit appended to a table that had `before` rows.
appended(before, after) == SubSeq(after, Len(before) + 1, Len(after))

\* C11: after every successful commit every track row's file is the id of a
\* file row and every non-null track album is the id of an album row; each
\* file classified New yields exactly one file row, and exactly one track row
\* that references it.
ReferencesAreKept ==
    [][Committed =>
        /\ \A i \in DOMAIN db'.track :
              /\ \E j \in DOMAIN db'.file : db'.file[j].id = db'.track[i].file
              /\ db'.track[i].album # NULL =>
                    \E j \in DOMAIN db'.album : db'.album[j].id = db'.track[i].album
        /\ Len(appended(db.file, db'.file)) = Len(results'.new)
        /\ Len(appended(db.track, db'.track)) = Len(results'.new)
        /\ \A p \in new_paths_of(results') :
              LET rows == SelectSeq(appended(db.file, db'.file), LAMBDA r : r.path = p) IN
              /\ Len(rows) = 1
              /\ Cardinality({i \in DOMAIN db'.track : db'.track[i].file = rows[1].id}) = 1
      ]_vars

\* One scan cataloged two new files: the catalog holds two file rows added by
\* the same scan, each with a track that has an album.
ReferencesAreKeptWitness ==
    /\ results.status = "ok"
    /\ Len(results.new) >= 2
    /\ \E i, j \in DOMAIN db.track :
          /\ i # j
          /\ db.track[i].album # NULL
          /\ db.track[j].album # NULL
          /\ \E f, g \in live(db) :
                /\ f.id = db.track[i].file
                /\ g.id = db.track[j].file
                /\ f.added = g.added

\* The album title in the tags of a content.
album_title_of(c) ==
    LET tags == SelectSeq(embedded_tags(c), LAMBDA tag : tag.key = "Album") IN
    [i \in DOMAIN tags |-> tags[i].value]

\* A name that is disc, cd or disk in any case, then white space or none, then
\* one ASCII digit or more.
claimed_disc_name(name) ==
    LET lower == [i \in DOMAIN name |-> char_to_ascii_lowercase(name[i])] IN
    \E w \in { <<"d", "i", "s", "c">>, <<"c", "d">>, <<"d", "i", "s", "k">> },
       k \in 0..Len(name) :
        /\ Len(name) > Len(w) + k
        /\ SubSeq(lower, 1, Len(w)) = w
        /\ \A i \in (Len(w) + 1)..(Len(w) + k) : name[i] = " "
        /\ \A i \in (Len(w) + k + 1)..Len(name) : name[i] \in AsciiDigits

\* The parent directory of a file, or the grandparent when the parent has
\* such a name.
claimed_album_directory(p) ==
    LET parent == parent_dirs(p) IN
    IF claimed_disc_name(parent[Len(parent)])
    THEN SubSeq(parent, 1, Len(parent) - 1) ELSE parent

\* C12: among the new files of one scan, two files get the same album id
\* exactly when they have the same album title and the same album directory:
\* the parent directory, or the grandparent when the parent's name is disc, cd
\* or disk (in any case), optional white space and a non-empty run of ASCII
\* digits.
AlbumsFollowTitleAndDirectory ==
    \A f, g \in live(db) :
        f.added = g.added =>
            \A i, j \in DOMAIN db.track :
                (db.track[i].file = f.id /\ db.track[j].file = g.id) =>
                    (db.track[i].album = db.track[j].album
                     <=> /\ album_title_of(fs[f.path]) = album_title_of(fs[g.path])
                         /\ claimed_album_directory(f.path) = claimed_album_directory(g.path))

\* The track rows of a file row.
tracks_of(t, id) == {i \in DOMAIN t.track : t.track[i].file = id}

\* C13: a discovered file whose path matches no live row and whose hash
\* matches live rows whose paths all still exist on disk is classified New,
\* never Moved; identical bytes at two paths end up as two file rows with
\* different ids and two track rows.
DuplicateContentIsNew ==
    [][Committed =>
        \A p \in Paths :
            (/\ fs[p] # Absent
             /\ \A r \in live(db) : r.path # p
             /\ \E r \in live(db) : r.hash = blake3(fs[p])
             /\ \A r \in live(db) : r.hash = blake3(fs[p]) => fs[r.path] # Absent)
            => /\ p \in new_paths_of(results')
               /\ p \notin moved_paths_of(results')
               /\ \E n \in live(db') :
                     /\ n.path = p
                     /\ \A i \in DOMAIN db.file : db.file[i].id # n.id
                     /\ Cardinality(tracks_of(db', n.id)) = 1
                     /\ \A r \in live(db) :
                           (r.hash = blake3(fs[p]) /\ fs[r.path] = fs[p]) =>
                              /\ r \in live(db')
                              /\ r.id # n.id
                              /\ Cardinality(tracks_of(db', r.id)) = 1
                              /\ tracks_of(db', r.id) # tracks_of(db', n.id)
      ]_vars

\* The last scan cataloged as new a file that has the bytes of a file
\* cataloged by an earlier scan: two live rows with one hash.
DuplicateContentIsNewWitness ==
    /\ results.status = "ok"
    /\ \E f, g \in live(db) :
          /\ f.hash = g.hash
          /\ f.added < g.added
          /\ f.id # g.id
          /\ g.path \in new_paths_of(results)
          /\ fs[f.path] = fs[g.path]
          /\ fs[f.path] # Absent

\* A file the scan cannot catalog: one that cannot be read, or one that
\* cannot be decoded and would be New (its path is the path of no live row and
\* its hash is not the hash of a live row whose path is gone).
failing(p, disk, t) ==
    \/ disk[p] = Unreadable
    \/ /\ disk[p] \in Undecodable
       /\ \A r \in live(t) : r.path # p
       /\ \A r \in live(t) : r.hash = blake3(disk[p]) => disk[r.path] # Absent

failing_files(disk, t) == {p \in DOMAIN disk : failing(p, disk, t)}

\* The directory without the files the scan cannot catalog.
without_failing(disk, t) ==
    [p \in DOMAIN disk |-> IF failing(p, disk, t) THEN Absent ELSE disk[p]]

\* The step is the step of a scan that walks `audio_files` while the
\* directory is `disk`.
ScansAs(audio_files, disk) ==
    \E staged \in {scan_stage(audio_files, Len(audio_files), disk, disk, db)} :
    \E win \in wins(staged.staging_data) :
    \E out \in {scan_commit(staged, db, scans + 1, win, 0)} :
        /\ db' = out.db
        /\ results' = out.results

\* No row appended by the step has the path of a file the scan cannot catalog.
NoRowForFailing ==
    \A p \in failing_files(fs, db) :
        /\ \A i \in DOMAIN appended(db.file, db'.file) :
              appended(db.file, db'.file)[i].path # p
        /\ p \notin skipped_paths_of(results') \cup moved_paths_of(results')
                \cup modified_paths_of(results') \cup new_paths_of(results')
        /\ Len(appended(db.track, db'.track)) = Len(results'.new)

stream_chunks(chunks) ==
    SelectSeq(chunks, LAMBDA c : c.msg \in {"schema", "batch", "eos"})

\* The preparation of the SQL of request r failed: the task ran conn.prepare
\* and it returned an error.
prepare_failed(r) ==
    /\ request[r] # <<>>
    /\ request[r][1].sql = "bad_sql"
    /\ task[r] = "done"
    /\ ready[r].value # "dropped"

\* C15: for a POST /query request whose SQL fails preparation the response
\* status is 400 with the error text as body, the readiness signal is sent
\* exactly once, and no stream chunk is ever sent for that request.
PrepareFailureIs400 ==
    [][\A r \in Requests :
        /\ (/\ task[r] = "prepare"
            /\ request[r][1].sql = "bad_sql"
            /\ task'[r] # "prepare")
           => /\ task'[r] = "done"
              /\ ready'[r] = [sends |-> 1, value |-> "err"]
        /\ prepare_failed(r)
           => /\ ready'[r] = [sends |-> 1, value |-> "err"]
              /\ chan'[r] = <<>>
              /\ buf'[r] = <<>>
              /\ stream_chunks(response'[r].body) = <<>>
              /\ response'[r].status \in {0, BAD_REQUEST}
              /\ (client[r] = "waiting" /\ client'[r] = "done")
                 => response'[r] = [status |-> BAD_REQUEST,
                                    body |-> << [msg |-> "error", no |-> 0] >>]
              /\ response[r].status = BAD_REQUEST => response'[r] = response[r]
      ]_vars

\* A request whose SQL does not prepare was answered 400 while the other
\* request, which took the mutex after it, streams its result.
PrepareFailureIs400Witness ==
    \E r, o \in Requests :
        /\ prepare_failed(r)
        /\ response[r].status = BAD_REQUEST
        /\ response[o].status = OK
        /\ chan[o] # <<>>
        /\ mutex = o

\* s is a prefix of t.
is_prefix(s, t) == Len(s) <= Len(t) /\ \A i \in 1..Len(s) : s[i] = t[i]

\* The Arrow IPC stream of the whole result of `body`.
whole_stream(body) ==
    <<schema_chunk>> \o [k \in 1..body.batches |-> batch_chunk(k)] \o <<eos_chunk>>

\* The end-of-stream marker is among `chunks`.
has_eos(chunks) == \E i \in 1..Len(chunks) : chunks[i].msg = "eos"

\* The stream of request r ended before its last batch, after the status was
\* decided: a write returned an error.
stream_failed(r) ==
    /\ ready[r].value = "ok"
    /\ task[r] = "done"
    /\ written[r] < request[r][1].batches

\* C16: the status of a response is decided before any chunk of its body is
\* written and never changes; it is 200 only after prepare (and query_arrow)
\* succeeded; a failure after that point (a write that returns an error, a
\* send that finds the client gone) leaves the status alone and ends the
\* body early, and the end-of-stream marker is never delivered, the body of a
\* client that is gone being left as it is; the marker is delivered only
\* when every batch was written, after the whole of the stream.
StatusIsDecidedBeforeBody ==
    [][\A r \in Requests :
        /\ response[r].status # 0 => response'[r].status = response[r].status
        /\ response'[r].status = OK
           => /\ request[r][1].sql = "ok"
              /\ ready[r] = [sends |-> 1, value |-> "ok"]
        /\ (buf'[r] # <<>> \/ chan'[r] # <<>>) => ready'[r].value = "ok"
        /\ response'[r].body # response[r].body
           => \/ response[r].status = 0 /\ response'[r].status # OK
              \/ response[r].status = OK
        /\ stream_chunks(response'[r].body) # <<>> => response'[r].status = OK
        /\ request[r] # <<>>
           => is_prefix(stream_chunks(response'[r].body) \o chan'[r],
                        whole_stream(request[r][1]))
        /\ has_eos(response'[r].body)
           => /\ written'[r] = request[r][1].batches
              /\ request[r][1].bad_batch = 0
              /\ response'[r].body = whole_stream(request[r][1])
        /\ stream_failed(r)
           => /\ ~has_eos(response'[r].body \o chan'[r])
              /\ response'[r].status \in {0, OK}
        /\ (task[r] = "send" /\ client[r] = "gone" /\ task'[r] = "done")
           => /\ ~has_eos(response'[r].body \o chan'[r])
              /\ response'[r].status \in {0, OK}
        /\ client[r] = "gone"
           => response'[r] = response[r] /\ chan'[r] = <<>>
      ]_vars

\* A response has status 200 and the first batch in its body, the write of
\* the second batch failed, and the body has ended without the marker.
StatusIsDecidedBeforeBodyWitness ==
    \E r \in Requests :
        /\ stream_failed(r)
        /\ request[r][1].bad_batch = 2
        /\ response[r].status = OK
        /\ response[r].body = <<schema_chunk, batch_chunk(1)>>
        /\ client[r] = "done"

\* The chunks of request r that the task has handed to its ChannelWriter and
\* that are with the client, in the channel, or waiting to be sent.
handed_over(r) == stream_chunks(response[r].body) \o chan[r] \o buf[r]

\* C17: the channel of a request never holds more than 8 chunks; while it
\* holds 8 the task's send does not return until the client side has taken
\* a chunk; and as long as the client is there no chunk is dropped or
\* overwritten: the chunks delivered, queued and waiting are, in order, the
\* beginning of the stream and only grow.
ChannelHoldsAtMostEight ==
    [][\A r \in Requests :
        /\ Len(chan'[r]) <= ChannelCapacity
        /\ (/\ Len(chan[r]) = ChannelCapacity
            /\ task[r] = "send"
            /\ client'[r] # "gone")
           => /\ task'[r] = "send"
              /\ buf'[r] = buf[r]
              /\ written'[r] = written[r]
              /\ chan'[r] = chan[r] \/ chan'[r] = Tail(chan[r])
        /\ (request[r] # <<>> /\ client'[r] # "gone")
           => /\ is_prefix(handed_over(r), handed_over(r)')
              /\ is_prefix(handed_over(r)', whole_stream(request[r][1]))
      ]_vars

\* The channel of a streaming response holds 8 chunks and the task waits in
\* send with the next chunk.
ChannelHoldsAtMostEightWitness ==
    \E r \in Requests :
        /\ Len(chan[r]) = ChannelCapacity
        /\ task[r] = "send"
        /\ buf[r] # <<>>
        /\ client[r] = "reading"
        /\ response[r].body # <<>>

\* C18: when the client of a streaming query disconnects, the task's next
\* send fails and the task returns, no further batch is written to the
\* channel, and the mutex the task holds is eventually released, free for
\* the task of another request to take.
DisconnectEndsTheWorker ==
    /\ [][\A r \in Requests :
            /\ client[r] = "gone"
               => /\ written'[r] = written[r]
                  /\ chan'[r] = <<>>
                  /\ (task[r] = "send" /\ task'[r] # "send")
                     => task'[r] = "done" /\ mutex' = 0 /\ ~poisoned'
                  /\ task[r] = "done" => task'[r] = "done" /\ mutex' # r
         ]_vars
    /\ \A r \in Requests :
          (client[r] = "gone" /\ mutex = r) ~> (task[r] = "done" /\ mutex # r)

\* The client of a request went away in the middle of its stream, the task
\* has returned at its next send, and the task of the other request holds
\* the mutex.
DisconnectEndsTheWorkerWitness ==
    \E r, o \in Requests :
        /\ client[r] = "gone"
        /\ task[r] = "done"
        /\ request[r][1].bad_batch = 0
        /\ written[r] > 0
        /\ written[r] < request[r][1].batches
        /\ mutex = o
        /\ o # r

\* The task of request r uses the connection: it prepares, executes, or
\* streams the batches of its statement.
query_uses_connection(r) ==
    task[r] \in {"prepare", "query_arrow", "ready_tx", "try_new", "send", "write"}

\* main is inside scanner::scan, which loads, stages and commits through
\* the connection.
scan_uses_connection == main_pc = "scan"

\* C19: at any moment at most one activity uses the catalog connection: a
\* task that prepares or streams holds the mutex, so no two do at the same
\* time; no request is taken, and no task exists, while main runs the scan;
\* and a task holds the mutex from before prepare until it returns at the
\* end of its stream, and at no other time.
OneActivityUsesTheConnection ==
    [][/\ \A r \in Requests :
            /\ query_uses_connection(r)' <=> mutex' = r
            /\ (mutex = r /\ mutex' # r) => task'[r] = "done" /\ mutex' = 0
            /\ (mutex # r /\ mutex' = r)
               => task[r] = "lock" /\ task'[r] = "prepare" /\ mutex = 0
       /\ \A r, o \in Requests :
            (query_uses_connection(r)' /\ query_uses_connection(o)') => r = o
       /\ scan_uses_connection'
          => \A r \in Requests : task'[r] = "none" /\ request'[r] = <<>>
       /\ (\E r \in Requests : query_uses_connection(r)') => main_pc' = "serve"
      ]_vars

\* The task of one request streams, with chunks in its channel, while the
\* task of the other request waits for the mutex, after a scan.
OneActivityUsesTheConnectionWitness ==
    \E r, o \in Requests :
        /\ task[r] = "send"
        /\ chan[r] # <<>>
        /\ task[o] = "lock"
        /\ mutex = r
        /\ results.status # "none"

(***************************************************************************)
(* Properties of the metadata extractor.                                   *)
(***************************************************************************)

\* C20: whenever the runs happen, the extractor returns the same
\* TrackMetadata and the same duration for the same file bytes.
ExtractorIsDeterministic ==
    \A one, other \in returned :
        one.file = other.file
        => one.metadata = other.metadata /\ one.duration = other.duration

(***************************************************************************)
(* Properties of the opening of the catalog.                               *)
(***************************************************************************)

\* The highest version of the known migrations.
highest_version == MIGRATIONS[Len(MIGRATIONS)]

\* C21: across the starts of the process each migration is applied at most
\* once and in ascending order of version (the schema is that of migrations
\* 1..n, each run once); after get_db has returned Ok the stored version is
\* the highest migration version; and a migration that fails, like every
\* other step that does not commit, leaves the stored version and the schema
\* as the last migration that succeeded left them.
MigrationsRunOnceAndInOrder ==
    [][/\ \A i \in DOMAIN store'.schema : store'.schema[i] = MIGRATIONS[i]
       /\ store'.version # <<>> => store'.version[1] = Len(store'.schema)
       /\ store'.version = <<>> => store'.schema = <<>>
       /\ get_db_pc' = "up" => store'.version = <<highest_version>>
       /\ (get_db_pc = "commit" /\ get_db_pc' = "for")
          => /\ store'.schema = Append(store.schema, Head(pending_migrations))
             /\ store'.version = << Head(pending_migrations) >>
             /\ store.version[1] < store'.version[1]
       /\ ~(get_db_pc = "commit" /\ get_db_pc' = "for")
          => store'.schema = store.schema
       /\ get_db_pc \notin {"commit", "init_db_version_metadata"}
          => store' = store
       /\ (get_db_pc # "init_db_version_metadata" /\ get_db_pc' \in {"failed", "down"})
          => store' = store
      ]_vars

\* The second migration has failed after its SQL ran in the transaction,
\* on a file that an earlier start had migrated to version 1.
MigrationsRunOnceAndInOrderWitness ==
    /\ get_db_pc = "failed"
    /\ startups > 1
    /\ store = [meta |-> "table", version |-> <<1>>, schema |-> <<1>>]
    /\ pending_migrations # <<>>
    /\ Head(pending_migrations) = 2

(***************************************************************************)
(* Properties of the classification and of the reconciliation.             *)
(***************************************************************************)

\* A file on disk whose path is the path of no live row and whose bytes are
\* those of a live row whose own path is gone: classify_file returns Moved.
takes_over(p) ==
    /\ fs[p] # Absent
    /\ \A r \in live(db) : r.path # p
    /\ \E r \in live(db) : r.hash = blake3(fs[p]) /\ fs[r.path] = Absent

\* C22: when two files of one scan are both classified Moved with the same
\* file id, reconciliation leaves at most one Moved entry for that id and the
\* other file becomes New, so that after the commit both files have a live
\* row.
MovedIdIsClaimedOnce ==
    [][Committed =>
        \A p, q \in Paths :
            (p # q /\ takes_over(p) /\ takes_over(q) /\ fs[p] = fs[q])
            => /\ \A i, j \in DOMAIN results'.moved :
                     results'.moved[i].id = results'.moved[j].id => i = j
               /\ {p, q} \cap new_paths_of(results') # {}
               /\ \E r \in live(db') : r.path = p
               /\ \E r \in live(db') : r.path = q
      ]_vars

\* The live row the classifier finds by the path of the file it is given.
row_at_path == SelectSeq(cataloged, LAMBDA r : r.path = TimedPath)

\* C23: a discovered file whose path is that of a live row and whose hash is
\* that row's hash is classified Skipped, whatever its modification time.
UnchangedBytesAreSkipped ==
    (/\ classification # <<>>
     /\ row_at_path # <<>>
     /\ row_at_path[1].hash = blake3(on_disk[TimedPath][1].content))
    => classification[1].kind = "Skipped"

\* C24: a discovered file whose path is that of a live row and whose hash is
\* not that row's hash is classified Modified with the row's id and the hash,
\* the size and the duration of the bytes now on disk, whether or not its
\* size and its modification time are the recorded ones.
ChangedBytesAreModified ==
    (/\ classification # <<>>
     /\ row_at_path # <<>>
     /\ row_at_path[1].hash # blake3(on_disk[TimedPath][1].content))
    => /\ classification[1].kind = "Modified"
       /\ classification[1].id = row_at_path[1].id
       /\ classification[1].hash = blake3(on_disk[TimedPath][1].content)
       /\ classification[1].size = content_len(on_disk[TimedPath][1].content)
       /\ classification[1].duration
            = content_duration(on_disk[TimedPath][1].content)

\* The live rows, in load order, that have the bytes of the file at `p` and
\* a path at which no file is.
gone_rows(p) ==
    SelectSeq(live_rows(db.file),
              LAMBDA r : r.hash = blake3(fs[p]) /\ fs[r.path] = Absent)

\* C25: a discovered file whose path is the path of no live row and whose
\* hash is that of at least one live row whose recorded path no longer exists
\* is classified Moved with the id of the first such row in load order; a row
\* whose recorded path still exists is never the one adopted.
MovedAdoptsTheFirstGoneRow ==
    [][Committed =>
        \A p \in Paths :
            (/\ fs[p] # Absent
             /\ \A r \in live(db) : r.path # p
             /\ gone_rows(p) # <<>>)
            => /\ \E i \in DOMAIN results'.moved :
                     results'.moved[i] = [id |-> gone_rows(p)[1].id, path |-> p]
               /\ \A i \in DOMAIN results'.moved :
                     results'.moved[i].path = p
                     => /\ results'.moved[i].id = gone_rows(p)[1].id
                        /\ \A r \in live(db) :
                              fs[r.path] # Absent => r.id # results'.moved[i].id
               /\ p \notin new_paths_of(results')
               /\ p \notin skipped_paths_of(results')
               /\ p \notin modified_paths_of(results')
      ]_vars

\* The last scan found the bytes of two rows at a path of neither, both rows'
\* files gone: the moved entry has the id of the first row, and the second
\* row is reported deleted.
MovedAdoptsTheFirstGoneRowWitness ==
    /\ results.status = "ok"
    /\ Len(db.file) >= 2
    /\ db.file[1].hash = db.file[2].hash
    /\ db.file[2].id \in results.deleted
    /\ db.file[2].added < scans
    /\ \E i \in DOMAIN results.moved :
          /\ results.moved[i].id = db.file[1].id
          /\ fs[db.file[2].path] = Absent
          /\ fs[results.moved[i].path] # Absent

\* The ids of the moved list resolve_conflicts was given, and the entries of
\* its modified list that carry one of them.
collected_moved_ids == {collected.moved[i].id : i \in DOMAIN collected.moved}

taken_out ==
    SelectSeq(collected.modified, LAMBDA m : m.id \in collected_moved_ids)

\* The paths of a list of new files.
paths_of_new(new_files) == {new_files[i].path : i \in DOMAIN new_files}

\* The statement of C26 as claimed: the path of every modified entry taken
\* out is added to the new list.
ConflictingModifiedBecomesNew ==
    reconciled # <<>> =>
        /\ reconciled[1].moved = collected.moved
        /\ reconciled[1].modified =
              SelectSeq(collected.modified,
                        LAMBDA m : m.id \notin collected_moved_ids)
        /\ \A i \in DOMAIN taken_out :
              taken_out[i].path \in paths_of_new(reconciled[1].new_files)

\* C26: when a file id is in both the moved and the modified list,
\* resolve_conflicts keeps the moved entries unchanged, removes every
\* modified entry with that id and classifies the removed entry's path again
\* as New: the path is added to the new list, with the hash of the removed
\* entry, when the file is still there and can be decoded, and is in no list
\* otherwise.  Modified entries whose id is not in moved, the skipped list
\* and the new files found before are left unchanged.
ConflictingModifiedIsClassifiedAgain ==
    reconciled # <<>> =>
        /\ reconciled[1].moved = collected.moved
        /\ reconciled[1].skipped = collected.skipped
        /\ reconciled[1].modified =
              SelectSeq(collected.modified,
                        LAMBDA m : m.id \notin collected_moved_ids)
        /\ is_prefix(collected.new_files, reconciled[1].new_files)
        /\ \A i \in DOMAIN taken_out :
              LET again == SelectSeq(appended(collected.new_files,
                                              reconciled[1].new_files),
                                     LAMBDA n : n.path = taken_out[i].path)
              IN IF fs[taken_out[i].path] \notin Undecodable \cup {Absent}
                 THEN /\ Len(again) = 1
                      /\ again[1].kind = "New"
                      /\ again[1].hash = taken_out[i].hash
                 ELSE /\ again = <<>>
                      /\ \A j \in DOMAIN reconciled[1].moved :
                            reconciled[1].moved[j].path # taken_out[i].path
                      /\ \A j \in DOMAIN reconciled[1].skipped :
                            reconciled[1].skipped[j] # taken_out[i].path
        /\ Len(reconciled[1].new_files)
             <= Len(collected.new_files) + Len(taken_out)

\* resolve_conflicts took one entry out of the modified list and left one
\* in it: the file of the entry taken out is still there and is added to the
\* new list.
ConflictingModifiedIsClassifiedAgainWitness ==
    /\ reconciled # <<>>
    /\ Len(taken_out) = 1
    /\ Len(reconciled[1].moved) = 1
    /\ Len(reconciled[1].modified) = 1
    /\ Len(reconciled[1].new_files) = 1
    /\ reconciled[1].new_files[1].path = taken_out[1].path
    /\ fs[taken_out[1].path] = "c2"

\* The paths of the four lists of a scan.
touched_paths_of(r) ==
    skipped_paths_of(r) \cup moved_paths_of(r) \cup modified_paths_of(r)
    \cup new_paths_of(r)

\* C27: the deletions a scan emits are exactly the ids of the loaded live
\* rows whose path is the path of no skipped, moved, modified or new entry of
\* the scan, and each of them is the id of a cataloged file the scan did not
\* find on disk: no file is at the row's path and the scan did not find the
\* file elsewhere as moved.
DeletionsAreTheFilesNotFound ==
    [][Committed =>
        /\ results'.deleted =
              {r.id : r \in {l \in live(db) : l.path \notin touched_paths_of(results')}}
        /\ \A r \in live(db) :
              r.id \in results'.deleted
              => /\ fs'[r.path] = Absent
                 /\ r.id \notin moved_ids_of(results')
      ]_vars

(***************************************************************************)
(* Properties of the staged changes and of the albums.                     *)
(***************************************************************************)

\* The file rows a step puts a tombstone on.
newly_tombstoned ==
    {i \in DOMAIN db.file : db.file[i].deletion = NULL /\ db'.file[i].deletion # NULL}

\* C28: all files tombstoned by one scan reference the same deletion id; a
\* scan inserts exactly one deletion row, with that id, when it tombstones at
\* least one file and no deletion row when it tombstones none; and the
\* deletion ids of different scans differ.
OneDeletionPerScan ==
    [][Committed =>
        /\ \A i, j \in newly_tombstoned :
              db'.file[i].deletion = db'.file[j].deletion
        /\ is_prefix(db.deletion, db'.deletion)
        /\ newly_tombstoned = {} => db'.deletion = db.deletion
        /\ \A i \in newly_tombstoned :
              /\ Len(db'.deletion) = Len(db.deletion) + 1
              /\ db'.deletion[Len(db'.deletion)].id = db'.file[i].deletion
              /\ \A j \in DOMAIN db.deletion :
                    db.deletion[j].id # db'.file[i].deletion
              /\ \A j \in DOMAIN db.file :
                    db.file[j].deletion # db'.file[i].deletion
      ]_vars

\* Two scans have tombstoned files, the first of them two files at once:
\* two deletion rows with different ids, two file rows that share the first.
OneDeletionPerScanWitness ==
    /\ results.status = "ok"
    /\ Len(db.deletion) = 2
    /\ db.deletion[1].id # db.deletion[2].id
    /\ db.deletion[1].timestamp < db.deletion[2].timestamp
    /\ \E f, g \in tombstoned(db) :
          /\ f.id # g.id
          /\ f.deletion = db.deletion[1].id
          /\ g.deletion = db.deletion[1].id
    /\ \E f \in tombstoned(db) : f.deletion = db.deletion[2].id

\* The new files of the scan of a step, in the order of the new-file list,
\* whose track row references the album `id`.
new_files_of_album(id) ==
    SelectSeq(results'.new, LAMBDA p :
        \E f \in live(db') :
            /\ f.path = p
            /\ f.added = scans'
            /\ \E i \in tracks_of(db', f.id) : db'.track[i].album = id)

\* C29: the year of an album a scan creates is the year of the first new
\* file of that album in the order of the new-file list; a later file of the
\* album never overwrites it, also when the first file has no year and a
\* later one has.
AlbumYearIsTheFirstFilesYear ==
    [][Committed =>
        \A a \in DOMAIN db'.album \ DOMAIN db.album :
            /\ new_files_of_album(db'.album[a].id) # <<>>
            /\ db'.album[a].year =
                  nullable(probed_metadata[
                      fs[new_files_of_album(db'.album[a].id)[1]]].year)
      ]_vars

\* A scan created one album for two new files, the first of them without a
\* year and the second of the year 2001: the album has no year.
AlbumYearIsTheFirstFilesYearWitness ==
    /\ results.status = "ok"
    /\ Len(results.new) = 2
    /\ probed_metadata[fs[results.new[1]]].year = <<>>
    /\ probed_metadata[fs[results.new[2]]].year = <<2001>>
    /\ Len(db.album) = 1
    /\ db.album[1].year = NULL
    /\ \A i \in DOMAIN db.track : db.track[i].album = db.album[1].id
    /\ Len(db.track) = 2

\* The (title, year) pairs of a sequence of album rows.
titles_and_years(albums) ==
    { <<albums[i].title, albums[i].year>> : i \in DOMAIN albums }

\* C30: the album rows a scan produces (title and year) are the same for
\* every order in which the walk and the classifier can deliver the same set
\* of files; a fresh ingest of two files of album A, one with the date 2001
\* and one without a date, yields the album (A, 2001).
AlbumsDoNotDependOnTheOrder ==
    [][Committed =>
        /\ \A other \in orders(get_audio_files(fs)) :
              titles_and_years(appended(db.album, db'.album))
              = titles_and_years(
                   scan_stage(other, Len(other), fs, fs, db).staging_data.albums)
        /\ (/\ db.file = <<>>
            /\ get_audio_files(fs) = {"A/1.flac", "A/disc 1/2.flac"}
            /\ {fs["A/1.flac"], fs["A/disc 1/2.flac"]} = {"c1", "c2"})
           => titles_and_years(db'.album) = { <<"A", 2001>> }
      ]_vars

(***************************************************************************)
(* Properties of the order of the statements and of the steps.             *)
(***************************************************************************)

\* The ids of the rows of a table.
ids_of(rows) == {rows[i].id : i \in DOMAIN rows}

\* Every reference of the tables has its row: a track its file and its
\* album, a credit its track and its artist, a tombstoned file its deletion.
references_resolve(t) ==
    /\ {t.track[i].file : i \in DOMAIN t.track} \subseteq ids_of(t.file)
    /\ {t.track[i].album : i \in DOMAIN t.track} \subseteq ids_of(t.album) \cup {NULL}
    /\ {t.credit[i].track : i \in DOMAIN t.credit} \subseteq ids_of(t.track)
    /\ {t.credit[i].artist : i \in DOMAIN t.credit} \subseteq ids_of(t.artist)
    /\ {t.file[i].deletion : i \in DOMAIN t.file} \subseteq ids_of(t.deletion) \cup {NULL}

\* The tables a statement of the batch may write, by the place of the
\* statement in the order the claim gives.
written_by(k) ==
    CASE k \in {1, 2} -> {"artist", "album"}
      [] k = 3 -> {"file"}
      [] k = 4 -> {"track"}
      [] k = 5 -> {"credit"}
      [] k \in {6, 7} -> {"file"}
      [] k = 8 -> {"deletion"}
      [] k = 9 -> {"file"}

\* What a statement may do to the file table: insert rows, or change the one
\* column group it is about.
file_change_is(k, before, after) ==
    CASE k = 3 -> is_prefix(before, after)
      [] k = 6 -> /\ Len(after) = Len(before)
                  /\ \A i \in DOMAIN before : after[i] = [before[i] EXCEPT !.path = after[i].path]
      [] k = 7 -> /\ Len(after) = Len(before)
                  /\ \A i \in DOMAIN before :
                        after[i] = [before[i] EXCEPT !.hash = after[i].hash,
                                                     !.size = after[i].size,
                                                     !.duration = after[i].duration]
      [] k = 9 -> /\ Len(after) = Len(before)
                  /\ \A i \in DOMAIN before :
                        after[i] = [before[i] EXCEPT !.deletion = after[i].deletion]
      [] OTHER -> after = before

\* The files of a set in some order.
RECURSIVE any_order(_)
any_order(S) ==
    IF S = {} THEN <<>>
    ELSE LET x == CHOOSE y \in S : TRUE IN <<x>> \o any_order(S \ {x})

\* A walk that gives the lists of a scan's results: the entries of each list
\* in the order of the list, and the files that were not classified.
walk_of(r, disk) ==
    r.skipped
    \o collect([i \in DOMAIN r.moved |-> r.moved[i].path])
    \o collect([i \in DOMAIN r.modified |-> r.modified[i].path])
    \o r.conflicting
    \o SelectSeq(r.new, LAMBDA p : \A i \in DOMAIN r.conflicting : r.conflicting[i] # p)
    \o any_order(get_audio_files(disk) \ touched_paths_of(r))

\* C31: within one commit the statements run in the order insert artists
\* and albums, insert files, insert tracks, insert credits, update the paths
\* of moved rows, update hash, size and duration of modified rows, insert the
\* deletion row, set deletion on the deleted rows; after each of them every
\* track has its file and album, every credit its track and artist, and every
\* file marked deleted its deletion row.
StatementsRunInOrder ==
    [][Committed =>
        \E audio_files \in {walk_of(results', fs)} :
        \E staged \in {scan_stage(audio_files, Len(audio_files), fs, fs, db)} :
        \E win \in wins(staged.staging_data) :
        \E tables \in {collect([k \in 1..(NumStatements + 1) |->
                          run_statements(k - 1, db, staged.staging_data, scans', win)])} :
            /\ staged.res.skipped = results'.skipped
            /\ staged.res.moved = results'.moved
            /\ staged.deleted_ids = results'.deleted
            /\ tables[1] = db
            /\ tables[NumStatements + 1] = db'
            /\ \A k \in 1..NumStatements :
                  /\ references_resolve(tables[k + 1])
                  /\ \A table \in DOMAIN db \ written_by(k) :
                        tables[k + 1][table] = tables[k][table]
                  /\ file_change_is(k, tables[k].file, tables[k + 1].file)
      ]_vars

\* One commit inserted a file with its track, moved a row and marked a row
\* deleted.
StatementsRunInOrderWitness ==
    /\ results.status = "ok"
    /\ results.new # <<>>
    /\ results.moved # <<>>
    /\ results.deleted # {}
    /\ \E i \in DOMAIN db.track : \E f \in live(db) :
          db.track[i].file = f.id /\ f.added = scans
    /\ \E f \in tombstoned(db) : f.deletion = db.deletion[Len(db.deletion)].id

\* The file rows a step appended to the file table.
inserted_files == SubSeq(db'.file, Len(db.file) + 1, Len(db'.file))

\* C32: within a scan the steps run in the order load existing state,
\* classify all files, resolve conflicts, detect deletions, stage, commit.
\* Every entry of the results is a classification against the rows that were
\* live before the scan; no entry taken out by the conflict resolution is left
\* in the modified list; the deletions are the loaded rows whose path is in
\* none of the lists as they are after the resolution; and the commit writes
\* what the whole classification gave: one file row per new file, in order,
\* and a tombstone on exactly the deleted ids.
StepsRunInOrder ==
    [][Committed =>
        \A existing_files \in {load_existing_files(db.file)} :
            /\ \A i \in DOMAIN results'.skipped :
                  results'.skipped[i] \in DOMAIN existing_files.by_path
            /\ \A i \in DOMAIN results'.modified :
                  /\ results'.modified[i].path \in DOMAIN existing_files.by_path
                  /\ existing_files.by_path[results'.modified[i].path].id
                        = results'.modified[i].id
            /\ \A i \in DOMAIN results'.moved :
                  /\ results'.moved[i].path \notin DOMAIN existing_files.by_path
                  /\ \E p \in DOMAIN existing_files.by_path :
                        existing_files.by_path[p].id = results'.moved[i].id
            /\ \A i \in DOMAIN results'.new :
                  \/ results'.new[i] \notin DOMAIN existing_files.by_path
                  \/ \E j \in DOMAIN results'.conflicting :
                        results'.conflicting[j] = results'.new[i]
            /\ \A j \in DOMAIN results'.conflicting :
                  /\ results'.conflicting[j] \notin modified_paths_of(results')
                  /\ existing_files.by_path[results'.conflicting[j]].id
                        \in moved_ids_of(results')
            /\ results'.deleted =
                  {existing_files.by_path[p].id :
                     p \in DOMAIN existing_files.by_path \ touched_paths_of(results')}
            /\ Len(db'.file) >= Len(db.file)
            /\ collect([i \in DOMAIN inserted_files |-> inserted_files[i].path])
                  = results'.new
            /\ {db.file[i].id : i \in newly_tombstoned} = results'.deleted
      ]_vars

\* A scan during which a file was removed found a moved and a modified entry
\* of one row, took the modified entry out, and emitted a deletion.
StepsRunInOrderWitness ==
    /\ results.status = "ok"
    /\ results.conflicting # <<>>
    /\ results.moved # <<>>
    /\ results.deleted # {}

\* The live rows of the file table whose id or hash does not convert.
corrupt_rows(t) ==
    {r \in live(t) : parse_str(r.id) = <<>> \/ try_into(r.hash) = <<>>}

\* The (id, path) pairs by_hash holds.
loaded_by_hash(existing_files) ==
    UNION {{existing_files.by_hash[h][i] : i \in DOMAIN existing_files.by_hash[h]} :
             h \in DOMAIN existing_files.by_hash}

\* C33: while loading the existing files, a live row whose id is not a valid
\* UUID or whose hash is not exactly 32 bytes is skipped without error: it is
\* in neither by_path nor by_hash, every other live row is loaded, and the
\* scan goes on to its commit, which leaves the skipped row as it was.
CorruptRowsAreSkipped ==
    [][scans' = scans + 1 =>
        \A existing_files \in {load_existing_files(db.file)} :
            /\ results'.status = "ok"
            /\ \A r \in corrupt_rows(db) :
                  /\ \A p \in DOMAIN existing_files.by_path :
                        existing_files.by_path[p] # [id |-> r.id, hash |-> r.hash]
                  /\ [id |-> r.id, path |-> r.path] \notin loaded_by_hash(existing_files)
                  /\ try_into(r.hash) = <<>> => r.hash \notin DOMAIN existing_files.by_hash
                  /\ r \in live(db')
            /\ \A r \in live(db) \ corrupt_rows(db) :
                  /\ r.path \in DOMAIN existing_files.by_path
                  /\ r.hash \in DOMAIN existing_files.by_hash
                  /\ [id |-> r.id, path |-> r.path] \in loaded_by_hash(existing_files)
                  /\ \E l \in live(db) \ corrupt_rows(db) :
                        /\ l.path = r.path
                        /\ existing_files.by_path[r.path] = [id |-> l.id, hash |-> l.hash]
      ]_vars

\* A scan ran on a catalog with a damaged live row whose file is still on
\* disk: the row stayed as it was, and the sound row an earlier scan made for
\* the file was found again.
CorruptRowsAreSkippedWitness ==
    /\ results.status = "ok"
    /\ \E r \in corrupt_rows(db) :
          /\ r.added < scans
          /\ fs[r.path] # Absent
          /\ \E l \in live(db) \ corrupt_rows(db) :
                /\ l.path = r.path
                /\ l.added < scans
                /\ \E i \in DOMAIN results.skipped : results.skipped[i] = l.path

\* The canonical formats, each with the characters of its name.
format_names ==
    ("mp3" :> <<"m", "p", "3">>) @@ ("flac" :> <<"f", "l", "a", "c">>)
    @@ ("ogg" :> <<"o", "g", "g">>) @@ ("mp4" :> <<"m", "p", "4">>)
    @@ ("opus" :> <<"o", "p", "u", "s">>) @@ ("wma" :> <<"w", "m", "a">>)
    @@ ("aac" :> <<"a", "a", "c">>) @@ ("aiff" :> <<"a", "i", "f", "f">>)
    @@ ("alac" :> <<"a", "l", "a", "c">>) @@ ("ape" :> <<"a", "p", "e">>)
    @@ ("wav" :> <<"w", "a", "v">>) @@ ("wv" :> <<"w", "v">>)

\* C34: every extension on the audio allow-list, compared without regard to
\* case, maps to a canonical format: m4a to mp4, aif and aiff to aiff, every
\* other one to itself; so no allow-listed file lacks a format.
AllowListedExtensionHasFormat ==
    is_audio =>
        \E lower \in {to_ascii_lowercase(file_ext)} :
            /\ lower \in AUDIO_EXTENSIONS
            /\ Len(file_format) = 1
            /\ file_format[1] \in DOMAIN format_names
            /\ file_format[1] =
                  CASE lower = <<"m", "4", "a">> -> "mp4"
                    [] lower \in {<<"a", "i", "f">>, <<"a", "i", "f", "f">>} -> "aiff"
                    [] OTHER -> CHOOSE f \in DOMAIN format_names : format_names[f] = lower

\* An allow-listed extension written in upper case got its format.
AllowListedExtensionHasFormatWitness ==
    /\ is_audio
    /\ file_ext = <<"M", "4", "A">>
    /\ file_format = <<"mp4">>

\* The live rows whose file is on disk and cannot be read.
unread_rows(t, disk) == {r \in live(t) : disk[r.path] = Unreadable}

\* C35: a live catalog file that is still on disk but whose bytes cannot be
\* read during a scan gets no classification: its path is not among the
\* touched paths, and its id is emitted as a deletion and tombstoned by that
\* scan, with the deletion row the scan inserts.
UnreadFileIsTombstoned ==
    [][Committed =>
        \A r \in unread_rows(db, fs) :
            /\ r.path \notin touched_paths_of(results')
            /\ r.id \in results'.deleted
            /\ \A i \in DOMAIN db.file :
                  db.file[i] = r
                  => /\ i \in newly_tombstoned
                     /\ Len(db'.deletion) = Len(db.deletion) + 1
                     /\ db'.file[i].deletion = db'.deletion[Len(db'.deletion)].id
      ]_vars

\* A scan tombstoned the row of a file that is on disk and cannot be read.
UnreadFileIsTombstonedWitness ==
    /\ results.status = "ok"
    /\ \E r \in tombstoned(db) :
          /\ fs[r.path] = Unreadable
          /\ r.id \in results.deleted
          /\ r.deletion = db.deletion[Len(db.deletion)].id

\* The file rows a step inserted whose track is attached to album `id`.
inserted_files_of_album(id) ==
    {f \in live(db') :
        /\ f.added = scans'
        /\ f.path \in new_paths_of(results')
        /\ \E i \in tracks_of(db', f.id) : db'.track[i].album = id}

\* C36: album rows are created only from the files classified New in the
\* current scan and the existing album rows are never read: every album row a
\* scan appends has a new file of that scan attached, every new file is
\* attached to an album row appended by the same scan (also when an earlier
\* scan made an album of the same title and directory), and the album rows
\* that were there stay as they were.
AlbumsAreNeverReused ==
    [][Committed =>
        /\ kept(db.album, db'.album)
        /\ \A a \in DOMAIN db'.album \ DOMAIN db.album :
              inserted_files_of_album(db'.album[a].id) # {}
        /\ \A a \in DOMAIN db.album :
              inserted_files_of_album(db.album[a].id) = {}
        /\ \A i \in DOMAIN db'.track \ DOMAIN db.track :
              \E a \in DOMAIN db'.album \ DOMAIN db.album :
                 db'.track[i].album = db'.album[a].id
      ]_vars

\* Two scans each made an album row of one title for files of one album
\* directory.
AlbumsAreNeverReusedWitness ==
    /\ results.status = "ok"
    /\ \E a, b \in DOMAIN db.album :
          /\ a < b
          /\ db.album[a].title = db.album[b].title
          /\ dirs_of_album(db.album[a].id, db.track, db.file)
                \cap dirs_of_album(db.album[b].id, db.track, db.file) # {}
          /\ \E f \in live(db) :
                /\ f.added = scans
                /\ \E i \in tracks_of(db, f.id) : db.track[i].album = db.album[b].id
          /\ \E f \in live(db) :
                /\ f.added < scans
                /\ \E i \in tracks_of(db, f.id) : db.track[i].album = db.album[a].id

\* The bytes of a sequence of chunks, in order.
RECURSIVE bytes_of(_)
bytes_of(chunks) ==
    IF Len(chunks) = 0 THEN <<>> ELSE Head(chunks) \o bytes_of(Tail(chunks))

\* The bytes the writer has taken, in the order they were written.
all_written == [i \in 1..bytes_written |-> i]

\* C37: the bytes delivered to the response body are, in order, a prefix of
\* the bytes the stream writer wrote; when no send fails they are all of
\* them (once the writer is dropped and the channel read to its end),
\* including the bytes still buffered when the writer is dropped; and an
\* empty buffer is never sent as a chunk.
DeliveredIsPrefixOfWritten ==
    /\ is_prefix(bytes_of(body_stream), all_written)
    /\ rx = "open" => is_prefix(bytes_of(body_stream \o writer_tx), all_written)
    /\ (~send_failed /\ rx = "open")
       => bytes_of(body_stream \o writer_tx) \o writer_buf = all_written
    /\ (~send_failed /\ rx = "open" /\ writer_pc = "dropped" /\ writer_tx = <<>>)
       => bytes_of(body_stream) = all_written
    /\ \A i \in DOMAIN body_stream : body_stream[i] # <<>>
    /\ \A i \in DOMAIN writer_tx : writer_tx[i] # <<>>

\* The writer was dropped with bytes in its buffer after a flush of an empty
\* buffer and a flush of a full one, and the body has received every byte in
\* two chunks.
DeliveredIsPrefixOfWrittenWitness ==
    /\ writer_pc = "dropped"
    /\ ~send_failed
    /\ rx = "open"
    /\ writer_tx = <<>>
    /\ bytes_written = MaxBytes
    /\ Len(body_stream) = 2
    /\ Len(body_stream[2]) = 1
    /\ bytes_of(body_stream) = all_written

\* C38: every query request eventually receives a response status, unless
\* its own client goes away first, provided the client of every request
\* keeps reading its stream or disconnects: the handler, the task, the
\* bounded channel and the connection mutex do not deadlock.  A task that
\* holds the mutex, also one blocked on a full channel, keeps every later
\* task waiting in lock() without a status until it returns.
EveryRequestIsAnswered ==
    /\ \A r \in Requests :
          (request[r] # <<>>) ~> (response[r].status # 0 \/ client[r] = "gone")
    /\ [][\A r, o \in Requests :
            (mutex = r /\ mutex' = r /\ task[o] = "lock")
            => /\ task'[o] = "lock"
               /\ response'[o].status = 0
               /\ ready'[o].value = "none"
         ]_vars

\* The first request streamed its whole result through the channel, which
\* was full while its task held the mutex, and the second request, which
\* had to wait for the mutex, has its status.
EveryRequestIsAnsweredWitness ==
    \E r, o \in Requests :
        /\ r < o
        /\ request[r] # <<>>
        /\ request[r][1].batches > ChannelCapacity - 2
        /\ has_eos(response[r].body)
        /\ response[o].status = OK
        /\ client[o] = "reading"

\* The task of request r ended without a readiness value: ready_tx was
\* dropped unsent.
ended_abnormally(r) == task[r] = "done" /\ ready[r].value = "dropped"

\* C39: when the task of a request ends abnormally before it sends the
\* readiness signal, the request is answered with status 500; when a task
\* panics while it holds the connection mutex, the mutex stays poisoned, and
\* every request whose task comes to the lock afterwards is answered with
\* status 500, never with 200 or 400.
AbnormalEndIs500 ==
    /\ [][\A r \in Requests :
            /\ (task[r] # "done" /\ ended_abnormally(r)')
               => /\ ready'[r].sends = 0
                  /\ poisoned'
                  /\ mutex' # r
            /\ ended_abnormally(r)
               => /\ ended_abnormally(r)'
                  /\ response'[r].status \in {0, INTERNAL_SERVER_ERROR}
                  /\ (client[r] = "waiting" /\ client'[r] = "done")
                     => response'[r] = [status |-> INTERNAL_SERVER_ERROR,
                                        body |-> << [msg |-> "panicked", no |-> 0] >>]
                  /\ stream_chunks(response'[r].body) \o chan'[r] \o buf'[r] = <<>>
            /\ poisoned => poisoned'
            /\ (poisoned /\ task[r] \in {"none", "lock"})
               => /\ task'[r] \in {task[r], "lock", "done"}
                  /\ mutex' # r
                  /\ ready'[r].value \in {"none", "dropped"}
                  /\ response'[r].status \in {0, INTERNAL_SERVER_ERROR}
         ]_vars
    /\ \A r \in Requests :
          (ended_abnormally(r) \/ (poisoned /\ task[r] = "lock"))
          ~> (response[r].status = INTERNAL_SERVER_ERROR \/ client[r] = "gone")

\* The task of the first request panicked in query_arrow; the first request
\* and the second, whose SQL is sound, are both answered with 500.
AbnormalEndIs500Witness ==
    \E r, o \in Requests :
        /\ r # o
        /\ poisoned
        /\ request[r] # <<>> /\ request[r][1].sql = "panic"
        /\ request[o] # <<>> /\ request[o][1].sql = "ok"
        /\ response[r].status = INTERNAL_SERVER_ERROR
        /\ response[o].status = INTERNAL_SERVER_ERROR
        /\ mutex = 0

====
